---- MODULE Spec2Model ----
(***************************************************************************)
(* Markdown-to-PDF export of the note-taking client                        *)
(* (src/Client/src/utils/pdf.ts), the page and the editor that call it,    *)
(* and the documents route of the server.                                  *)
(*                                                                         *)
(* Lengths are integers in TENTHS of a point, so that the line heights     *)
(* fontSize * 1.4 of the code (33.6, 25.2, 19.6, 16.8, 15.4, 14) are        *)
(* exact.  A horizontal position of a table is a fraction: every drawing   *)
(* operation carries x as a numerator together with its denominator den.   *)
(*                                                                         *)
(* A DOM element is a record                                               *)
(*   tag   its lower-case tag name                                         *)
(*   lines the number of lines its own text is wrapped into by             *)
(*         doc.splitTextToSize (0 when the trimmed text is empty); for a   *)
(*         pre the number of '\n'-separated lines of its trimmed content;  *)
(*         for an li the lines of its direct text (non-list children)      *)
(*   cb    for an li, the checkbox input among its non-list content:       *)
(*         "none", "checked" or "unchecked"                                *)
(*   kids  its child nodes that processNode may be called on; a direct     *)
(*         text node among them has tag "#text" and lines > 0              *)
(*   rows  for a table, its tr descendants: <<[header, cells]>>            *)
(***************************************************************************)
EXTENDS Integers, Sequences, FiniteSets, TLC

VARIABLES
    pc,            \* renderToPdf: "walk" in the root loop, "done" after it
    y,             \* renderToPdf: the vertical cursor y
    numPages,      \* pages of the jsPDF document; the last one is current
    listDepth,     \* renderToPdf: listDepth
    listCounters,  \* renderToPdf: listCounters
    emitted,       \* what the last processNode call of the root loop drew
    exportPc,      \* downloadMarkdownAsPdf: the step it is at
    markdown,      \* downloadMarkdownAsPdf: its argument, a sequence of characters
    processed,     \* markdownToHtml: processed, the text handed to remark
    html,          \* the element children of the root parsed from `clean`
    error,         \* the error the call rejected with ("none": none)
    started,       \* the pipeline steps begun, in order
    logged,        \* number of console.error calls of the catch block
    savedPages,    \* pages of the document handed to doc.save (0: not saved)
    mainPage,      \* MainPage: its state isGeneratingPdf, error
    hook,          \* useMarkdownPersistence: markdown, saveTimerRef, timers, localStorage
    editor,        \* MilkdownEditor: drawerOpen, drawerOpenRef, textarea, syncTimerRef
    server         \* the documents route: users, documents, requests in flight

layoutVars == <<pc, y, numPages, listDepth, listCounters, emitted>>
exportVars ==
    <<exportPc, markdown, processed, html, error, started, logged, savedPages>>
appVars == <<mainPage, hook, editor, server>>
pdfVars == <<layoutVars, exportVars>>
vars == <<pc, y, numPages, listDepth, listCounters, emitted,
          exportPc, markdown, processed, html, error, started, logged, savedPages,
          mainPage, hook, editor, server>>

\* the page, the editor and the server take no part: pdf.ts is called alone
AppIdle ==
    /\ mainPage = <<>>
    /\ hook = <<>>
    /\ editor = <<>>
    /\ server = <<>>

----------------------------------------------------------------------------
(* Program constants, in tenths of a point *)

MARGIN == 500
FONT_SIZE_H1 == 240
FONT_SIZE_H2 == 180
FONT_SIZE_H3 == 140
FONT_SIZE_H4 == 120
FONT_SIZE_BODY == 110
FONT_SIZE_CODE == 100
indentPerLevel == 200
PrefixReserve == 150
\* new jsPDF({unit: 'pt', format: 'letter', orientation: 'portrait'}): 612 pt wide
PageWidth == 6120

contentWidth == PageWidth - MARGIN * 2

(* Bounds of the documents explored *)
\* doc.internal.pageSize.getHeight().  renderToPdf reads the height from the
\* surface it is handed; the letter page of downloadMarkdownAsPdf is 7920.
\* A shorter surface makes bounded documents run over the page end.
PageHeight == 2400
MaxLines == 2        \* wrapped lines of one text block
MaxCodeLines == 7    \* lines of one pre block
MaxRows == 2         \* rows of one table
MaxCols == 3         \* cells of one table row
MaxTailItems == 1    \* plain items after the first item of a list
MaxPages == 2        \* the root loop takes no further child on this page
MaxMdLen == 3        \* characters of the markdown argument
MaxHtmlBlocks == 3   \* root children of the html of an export call
MaxSpanPieces == 3   \* macros, braces, letters and blanks between two delimiters
MaxCallBlocks == 2   \* root children of the html of one of two overlapping calls
MaxTreeBlocks == 2   \* root children of a malformed document
MaxHeadings == 2     \* root children of a document of headings
MaxInlineBlocks == 2 \* root children of a document of elements without handler
MaxExports == 2      \* clicks on the download button
MaxUpdates == 3      \* calls of updateMarkdown
MaxEditorCalls == 3  \* calls of setMarkdown by the editor's handlers

----------------------------------------------------------------------------
(* Document trees *)

Node(tag, lines, cb, kids, rows) ==
    [tag |-> tag, lines |-> lines, cb |-> cb, kids |-> kids, rows |-> rows]

Leaf(tag, lines) == Node(tag, lines, "none", <<>>, <<>>)
Li(lines, cb, kids) == Node("li", lines, cb, kids, <<>>)
List(tag, kids) == Node(tag, 0, "none", kids, <<>>)
Div(kids) == Node("div", 0, "none", kids, <<>>)
Row(header, cells) == [header |-> header, cells |-> cells]

HeadingTags == {"h1", "h2", "h3", "h4", "h5", "h6"}
ListTags == {"ul", "ol"}
Checkbox == {"none", "checked", "unchecked"}

PlainItem == Li(1, "none", <<>>)
LeafItems == {Li(1, cb, <<>>) : cb \in Checkbox} \cup {Li(0, "none", <<>>)}
InnerLists ==
    {List(t, <<i>>) : t \in ListTags, i \in {PlainItem, Li(1, "checked", <<>>)}}
ParentItems ==
    {Li(1, cb, <<n>>) : cb \in {"none", "unchecked"}, n \in InnerLists}
    \cup {Li(0, "none", <<n>>) : n \in {List("ul", <<PlainItem>>)}}
PlainTail(n) == [i \in 1..n |-> PlainItem]
Lists ==
    {List(t, <<a>> \o PlainTail(n)) :
        t \in ListTags, a \in LeafItems \cup ParentItems, n \in 0..MaxTailItems}
    \cup {List(t, <<Div(<<PlainItem>>), PlainItem>>) : t \in ListTags}

Tables ==
    {Node("table", 0, "none", <<>>,
          [i \in 1..r |-> Row(h /\ i = 1, c)]) :
        r \in 0..MaxRows, c \in 1..MaxCols, h \in BOOLEAN}
    \* rows whose number of cells differs from that of the first row
    \cup {Node("table", 0, "none", <<>>, <<Row(TRUE, a), Row(FALSE, c)>>) :
            a \in 0..MaxCols, c \in 0..MaxCols}

\* the family explored for pagination: every block kind, a few lists
Blocks ==
    {Leaf(t, l) : t \in HeadingTags \cup {"p", "blockquote"}, l \in 0..MaxLines}
    \cup {Leaf("pre", l) : l \in 0..MaxCodeLines}
    \cup {Leaf("hr", 0)}
    \cup {n \in Tables : n.rows = <<>> \/ n.rows[1].cells \in {0, 1, MaxCols}}
    \cup {List("ul", <<PlainItem>>),
          List("ol", <<Li(1, "none", <<List("ul", <<PlainItem>>)>>), PlainItem>>)}
    \cup {PlainItem}
    \cup {Div(<<b>>) : b \in {Leaf("p", 1), Leaf("blockquote", 1)}}

\* the family explored for lists: every list, a paragraph, stray items
ListBlocks ==
    Lists
    \cup {Leaf("p", 1), PlainItem, Li(1, "checked", <<>>)}
    \cup {Div(<<b>>) : b \in {PlainItem, List("ol", <<PlainItem>>)}}

----------------------------------------------------------------------------
(* Drawing operations.  A text operation has y1 = y2 = its baseline; a line *)
(* or rectangle runs from y1 to y2.  need, prey and prepage are the height  *)
(* tested by the checkPageBreak call that precedes the operation and the   *)
(* cursor and page before that call (need = 0: no such call).  An "li"     *)
(* record is not drawn: it notes that an li was processed, with the prefix *)
(* the code chose (label, n) and, read off the tree alone, its position k  *)
(* among the li children of its parent, the number d of ul/ol ancestors,   *)
(* whether all element children of its parent are li (onlyItems), its      *)
(* first checkbox descendant in document order (first) and which kinds of  *)
(* checkbox descendants exist.  cury is the cursor y at the emission.      *)
(* An operation of a table row carries, read off the tree, the number k of *)
(* cells of the table's first row, the row's index d and the number own of *)
(* cells of its row; its n is the column index i of the code.              *)

Op(what, blk, page, x, den, y1, y2, need, prey, prepage, label, n) ==
    [what |-> what, blk |-> blk, page |-> page, x |-> x, den |-> den,
     y1 |-> y1, y2 |-> y2, need |-> need, prey |-> prey, prepage |-> prepage,
     label |-> label, n |-> n, cury |-> y1,
     parent |-> "", k |-> 0, d |-> 0, own |-> 0, onlyItems |-> FALSE,
     first |-> "none", hasChecked |-> FALSE, hasUnchecked |-> FALSE,
     depth |-> 0, stack |-> 0, cb |-> "none"]

\* an operation is noted with listDepth and listCounters.length at its emission
Emit(s, op) ==
    [s EXCEPT !.ops = Append(@, [op EXCEPT !.depth = s.depth,
                                           !.stack = Len(s.counters)])]

(* extractText / querySelector over the tree *)

IsList(n) == n.tag \in ListTags

RECURSIVE Checkboxes(_)
\* the checkbox inputs below a node, in document order
Checkboxes(n) ==
    LET RECURSIVE Of(_, _)
        Of(kids, i) == IF i > Len(kids) THEN <<>>
                       ELSE Checkboxes(kids[i]) \o Of(kids, i + 1)
    IN (IF n.cb = "none" THEN <<>> ELSE <<n.cb>>) \o Of(n.kids, 1)

\* node.querySelector('input[type="checkbox"]'): the first match, or "none"
QuerySelectorCheckbox(n) ==
    LET c == Checkboxes(n) IN IF c = <<>> THEN "none" ELSE c[1]

----------------------------------------------------------------------------
(* renderToPdf: the closures over y, listDepth, listCounters and doc.      *)
(* A layout state s is [y, page, depth, counters, ops, blk].               *)

\* mutant: the test looks at the cursor alone, not at the needed height
CheckPageBreakIgnoresHeight(s, neededHeight) ==
    IF s.y > PageHeight - MARGIN
    THEN [s EXCEPT !.page = @ + 1, !.y = MARGIN]
    ELSE s

\* mutant: the page is added but the cursor is not reset
CheckPageBreakNoReset(s, neededHeight) ==
    IF s.y + neededHeight > PageHeight - MARGIN
    THEN [s EXCEPT !.page = @ + 1]
    ELSE s

CheckPageBreak(s, neededHeight) ==
    IF s.y + neededHeight > PageHeight - MARGIN
    THEN [s EXCEPT !.page = @ + 1, !.y = MARGIN]
    ELSE s

GetLineHeight(fontSize) == (fontSize * 14) \div 10

AddSpace(s, points) == [s EXCEPT !.y = @ + points]

RECURSIVE RenderLines(_, _, _, _, _, _)
RenderLines(s, i, lines, lineHeight, textX, b) ==
    IF i > lines THEN s
    ELSE LET t == CheckPageBreak(s, lineHeight)
             u == Emit(t, Op("text", b, t.page, textX, 1, t.y, t.y,
                             lineHeight, s.y, s.page, "", i))
         IN RenderLines([u EXCEPT !.y = @ + lineHeight],
                        i + 1, lines, lineHeight, textX, b)

\* mutant: the prefix is drawn before the page test of the first line
RenderTextPrefixUnchecked(s, lines, fontSize, indent, prefix, n, b) ==
    LET lineHeight == GetLineHeight(fontSize)
        x == MARGIN + indent
        s1 == IF prefix # ""
              THEN Emit(s, Op("prefix", b, s.page, x, 1, s.y, s.y,
                              lineHeight, s.y, s.page, prefix, n))
              ELSE s
        textIndent == IF prefix # "" THEN PrefixReserve ELSE 0
    IN RenderLines(s1, 1, lines, lineHeight, x + textIndent, b)

RenderText(s, lines, fontSize, indent, prefix, n, b) ==
    LET lineHeight == GetLineHeight(fontSize)
        x == MARGIN + indent
        t == CheckPageBreak(s, lineHeight)
        s1 == IF prefix # ""
              THEN Emit(t, Op("prefix", b, t.page, x, 1, t.y, t.y,
                              lineHeight, s.y, s.page, prefix, n))
              ELSE s
        textIndent == IF prefix # "" THEN PrefixReserve ELSE 0
    IN RenderLines(s1, 1, lines, lineHeight, x + textIndent, b)

\* the "li" record of one processed li
LiRecord(b, node, parentTag, at, prefix, counter) ==
    [Op("li", b, 0, 0, 1, 0, 0, 0, 0, 0, prefix, counter) EXCEPT
        !.parent = parentTag, !.k = at.k, !.d = at.d, !.own = node.lines,
        !.onlyItems = at.onlyItems, !.cb = node.cb,
        !.first = IF Checkboxes(node) = <<>> THEN "none"
                  ELSE Head(Checkboxes(node)),
        !.hasChecked = \E i \in DOMAIN Checkboxes(node) :
                           Checkboxes(node)[i] = "checked",
        !.hasUnchecked = \E i \in DOMAIN Checkboxes(node) :
                             Checkboxes(node)[i] = "unchecked"]

HeadingBefore(tag) ==
    CASE tag = "h1" -> 200 [] tag = "h2" -> 160 [] tag = "h3" -> 120
      [] OTHER -> 100
HeadingSize(tag) ==
    CASE tag = "h1" -> FONT_SIZE_H1 [] tag = "h2" -> FONT_SIZE_H2
      [] tag = "h3" -> FONT_SIZE_H3 [] OTHER -> FONT_SIZE_H4
\* mutant: every heading is followed by the space of an h1
HeadingAfterSame(tag) == 100

HeadingAfter(tag) ==
    CASE tag = "h1" -> 100 [] tag = "h2" -> 80 [] tag = "h3" -> 60
      [] OTHER -> 40

ProcessHeading(s, node, b) ==
    LET a == AddSpace(s, HeadingBefore(node.tag))
        r == IF node.lines > 0
             THEN RenderText(a, node.lines, HeadingSize(node.tag), 0, "", 0, b)
             ELSE a
    IN AddSpace(r, HeadingAfter(node.tag))

ProcessP(s, node, b) ==
    IF node.lines > 0
    THEN AddSpace(RenderText(s, node.lines, FONT_SIZE_BODY,
                             s.depth * indentPerLevel, "", 0, b), 80)
    ELSE s

ProcessBlockquote(s, node, b) ==
    IF node.lines > 0
    THEN LET a == AddSpace(s, 80)
             startY == a.y
             r == RenderText(a, node.lines, FONT_SIZE_BODY, 200, "", 0, b)
             l == Emit(r, [Op("quoterule", b, r.page, MARGIN + 80, 1,
                              startY - 100, r.y - 50, 0, r.y, r.page, "", 0)
                           EXCEPT !.cury = r.y])
         IN AddSpace(l, 80)
    ELSE s

\* mutant: the code lines are drawn without a page-break test per line
RECURSIVE CodeLinesUnchecked(_, _, _, _, _)
CodeLinesUnchecked(s, i, lines, lineHeight, b) ==
    IF i > lines THEN s
    ELSE LET u == Emit(s, Op("code", b, s.page, MARGIN + 100, 1, s.y, s.y,
                             lineHeight, s.y, s.page, "", i))
         IN CodeLinesUnchecked([u EXCEPT !.y = @ + lineHeight], i + 1, lines,
                               lineHeight, b)

RECURSIVE CodeLines(_, _, _, _, _)
CodeLines(s, i, lines, lineHeight, b) ==
    IF i > lines THEN s
    ELSE LET t == CheckPageBreak(s, lineHeight)
             u == Emit(t, Op("code", b, t.page, MARGIN + 100, 1, t.y, t.y,
                             lineHeight, s.y, s.page, "", i))
         IN CodeLines([u EXCEPT !.y = @ + lineHeight], i + 1, lines,
                      lineHeight, b)

Min(a, b) == IF a < b THEN a ELSE b

ProcessPre(s, node, b) ==
    IF node.lines > 0
    THEN LET a == AddSpace(s, 80)
             lineHeight == GetLineHeight(FONT_SIZE_CODE)
             blockHeight == node.lines * lineHeight + 200
             t == CheckPageBreak(a, Min(blockHeight, 1000))
             g == Emit(t, [Op("codebg", b, t.page, MARGIN, 1, t.y - 50,
                              t.y - 50 + blockHeight, Min(blockHeight, 1000),
                              a.y, a.page, "", node.lines)
                           EXCEPT !.cury = t.y])
             c == CodeLines([g EXCEPT !.y = @ + 100], 1, node.lines,
                            lineHeight, b)
         IN AddSpace([c EXCEPT !.y = @ + 100], 80)
    ELSE s

\* mutant: each row divides the content width by its own number of cells
TableRowOwnWidth(s, row, r, cols, first, rowHeight, b) ==
    LET t == CheckPageBreak(s, rowHeight)
        own == IF row.cells = 0 THEN 1 ELSE row.cells
        RowOp(what, x, ya, yb, n) ==
            [Op(what, b, t.page, x, own, ya, yb, rowHeight, s.y, s.page,
                IF row.header THEN "header" ELSE "", n)
             EXCEPT !.cury = t.y, !.k = first, !.d = r, !.own = row.cells,
                    !.depth = t.depth, !.stack = Len(t.counters)]
        fill == IF row.header
                THEN <<RowOp("rowfill", MARGIN * own, t.y, t.y + rowHeight, r)>>
                ELSE <<>>
        cells == [i \in 1..row.cells |->
                    RowOp("cell", MARGIN * own + (i - 1) * contentWidth + 50 * own,
                          t.y + rowHeight \div 2 + 30,
                          t.y + rowHeight \div 2 + 30, i - 1)]
        border == <<RowOp("rowborder", MARGIN * own, t.y, t.y + rowHeight, r)>>
        seps == [i \in 1..(own - 1) |->
                    RowOp("colsep", MARGIN * own + i * contentWidth,
                          t.y, t.y + rowHeight, i)]
    IN [t EXCEPT !.ops = @ \o fill \o cells \o border \o seps,
                 !.y = @ + rowHeight]

\* one row of a table: fill, cell texts, border, column separators
TableRow(s, row, r, cols, first, rowHeight, b) ==
    LET t == CheckPageBreak(s, rowHeight)
        RowOp(what, x, ya, yb, n) ==
            [Op(what, b, t.page, x, cols, ya, yb, rowHeight, s.y, s.page,
                IF row.header THEN "header" ELSE "", n)
             EXCEPT !.cury = t.y, !.k = first, !.d = r, !.own = row.cells,
                    !.depth = t.depth, !.stack = Len(t.counters)]
        fill == IF row.header
                THEN <<RowOp("rowfill", MARGIN * cols, t.y, t.y + rowHeight, r)>>
                ELSE <<>>
        cells == [i \in 1..row.cells |->
                    RowOp("cell", MARGIN * cols + (i - 1) * contentWidth + 50 * cols,
                          t.y + rowHeight \div 2 + 30,
                          t.y + rowHeight \div 2 + 30, i - 1)]
        border == <<RowOp("rowborder", MARGIN * cols, t.y, t.y + rowHeight, r)>>
        seps == [i \in 1..(cols - 1) |->
                    RowOp("colsep", MARGIN * cols + i * contentWidth,
                          t.y, t.y + rowHeight, i)]
    IN [t EXCEPT !.ops = @ \o fill \o cells \o border \o seps,
                 !.y = @ + rowHeight]

RECURSIVE TableRows(_, _, _, _, _, _)
TableRows(s, rows, r, cols, rowHeight, b) ==
    IF r > Len(rows) THEN s
    ELSE TableRows(TableRow(s, rows[r], r, cols, rows[1].cells, rowHeight, b),
                   rows, r + 1, cols, rowHeight, b)

ProcessTable(s, node, b) ==
    LET a == AddSpace(s, 100)
        rows == node.rows
        cols == IF rows[1].cells = 0 THEN 1 ELSE rows[1].cells
        rowHeight == GetLineHeight(FONT_SIZE_BODY) + 120
    IN IF Len(rows) = 0 THEN a
       ELSE AddSpace(TableRows(a, rows, 1, cols, rowHeight, b), 100)

ProcessHr(s, node, b) ==
    LET a == AddSpace(s, 150)
        t == CheckPageBreak(a, 50)
        l == Emit(t, Op("hr", b, t.page, MARGIN, 1, t.y, t.y, 50,
                        a.y, a.page, "", 0))
    IN AddSpace(l, 150)

RECURSIVE ProcessNode(_, _, _, _)
RECURSIVE ProcessChildren(_, _, _, _, _)
RECURSIVE ProcessChildrenDrawsText(_, _, _, _, _)

\* where a child is in the tree: its position k among the li children of
\* its parent, the number d of its ul/ol ancestors, and whether all element
\* children of its parent are li
At(kids, i, d) ==
    [k |-> Cardinality({j \in 1..i : kids[j].tag = "li"}), d |-> d,
     onlyItems |-> \A j \in DOMAIN kids : kids[j].tag = "li"]

\* mutant: a direct text node is drawn like a paragraph
ProcessChildrenDrawsText(s, kids, i, parentTag, d) ==
    IF i > Len(kids) THEN s
    ELSE IF kids[i].tag = "#text"
    THEN ProcessChildrenDrawsText(
             AddSpace(RenderText(s, kids[i].lines, FONT_SIZE_BODY, 0, "", 0,
                                 s.blk), 80),
             kids, i + 1, parentTag, d)
    ELSE ProcessChildrenDrawsText(
             ProcessNode(s, kids[i], parentTag, At(kids, i, d)),
             kids, i + 1, parentTag, d)

\* childNodes.forEach(child => { if (child.nodeType === Node.ELEMENT_NODE)
\* processNode(child) })
ProcessChildren(s, kids, i, parentTag, d) ==
    IF i > Len(kids) THEN s
    ELSE IF kids[i].tag = "#text"
    THEN ProcessChildren(s, kids, i + 1, parentTag, d)
    ELSE ProcessChildren(ProcessNode(s, kids[i], parentTag, At(kids, i, d)),
                         kids, i + 1, parentTag, d)

\* mutant: the counter of a list continues from the enclosing list's counter
ProcessListNoReset(s, node, d, b) ==
    LET s1 == [s EXCEPT !.depth = @ + 1,
                        !.counters = Append(@, IF @ = <<>> THEN 0 ELSE @[Len(@)])]
        s2 == ProcessChildren(s1, node.kids, 1, node.tag, d + 1)
        s3 == [s2 EXCEPT !.counters = SubSeq(@, 1, Len(@) - 1),
                         !.depth = @ - 1]
    IN IF s3.depth = 0 THEN AddSpace(s3, 60) ELSE s3

ProcessList(s, node, d, b) ==
    LET s1 == [s EXCEPT !.depth = @ + 1, !.counters = Append(@, 0)]
        s2 == ProcessChildren(s1, node.kids, 1, node.tag, d + 1)
        s3 == [s2 EXCEPT !.counters = SubSeq(@, 1, Len(@) - 1),
                         !.depth = @ - 1]
    IN IF s3.depth = 0 THEN AddSpace(s3, 60) ELSE s3

\* mutant: in an ordered list the number wins over the checkbox
LiPrefixNumberFirst(node, isOrdered) ==
    LET checkbox == QuerySelectorCheckbox(node)
    IN IF isOrdered THEN "number"
       ELSE IF checkbox # "none" THEN checkbox ELSE "bullet"

\* the prefix glyph: "checked", "unchecked", "number" (n.) or "bullet"
LiPrefix(node, isOrdered) ==
    LET checkbox == QuerySelectorCheckbox(node)
    IN IF checkbox # "none" THEN checkbox
       ELSE IF isOrdered THEN "number" ELSE "bullet"

\* listCounters[listCounters.length - 1]++ : on an empty array this sets
\* the property "-1" to NaN and leaves the array as it is
IncrementCounter(counters) ==
    IF Len(counters) = 0 THEN counters
    ELSE [counters EXCEPT ![Len(counters)] = @ + 1]

\* mutant: an li outside any list is not processed
ProcessLiRequiresList(s, node, parentTag, at, b) ==
    LET s1 == [s EXCEPT !.counters = IncrementCounter(@)]
        counter == IF Len(s1.counters) = 0 THEN -1
                   ELSE s1.counters[Len(s1.counters)]
        isOrdered == parentTag = "ol"
        prefix == LiPrefix(node, isOrdered)
        n == IF prefix = "number" THEN counter ELSE 0
        indent == (s1.depth - 1) * indentPerLevel
        s2 == Emit(s1, LiRecord(b, node, parentTag, at, prefix, n))
        s3 == IF node.lines > 0
              THEN RenderText(s2, node.lines, FONT_SIZE_BODY, indent, prefix, n, b)
              ELSE s2
    IN IF s.depth = 0 THEN s
       ELSE ProcessChildren(s3, SelectSeq(node.kids, IsList), 1, "li", at.d)

\* mutant: the indent is depth * 20 instead of (depth - 1) * 20
ProcessLiIndentDepth(s, node, parentTag, at, b) ==
    LET s1 == [s EXCEPT !.counters = IncrementCounter(@)]
        counter == IF Len(s1.counters) = 0 THEN -1
                   ELSE s1.counters[Len(s1.counters)]
        isOrdered == parentTag = "ol"
        prefix == LiPrefix(node, isOrdered)
        n == IF prefix = "number" THEN counter ELSE 0
        indent == s1.depth * indentPerLevel
        s2 == Emit(s1, LiRecord(b, node, parentTag, at, prefix, n))
        s3 == IF node.lines > 0
              THEN RenderText(s2, node.lines, FONT_SIZE_BODY, indent, prefix, n, b)
              ELSE s2
    IN ProcessChildren(s3, SelectSeq(node.kids, IsList), 1, "li", at.d)

ProcessLi(s, node, parentTag, at, b) ==
    LET s1 == [s EXCEPT !.counters = IncrementCounter(@)]
        counter == IF Len(s1.counters) = 0 THEN -1
                   ELSE s1.counters[Len(s1.counters)]
        isOrdered == parentTag = "ol"
        prefix == LiPrefix(node, isOrdered)
        n == IF prefix = "number" THEN counter ELSE 0
        indent == (s1.depth - 1) * indentPerLevel
        s2 == Emit(s1, LiRecord(b, node, parentTag, at, prefix, n))
        s3 == IF node.lines > 0
              THEN RenderText(s2, node.lines, FONT_SIZE_BODY, indent, prefix, n, b)
              ELSE s2
    IN ProcessChildren(s3, SelectSeq(node.kids, IsList), 1, "li", at.d)

ProcessDefault(s, node, d) == ProcessChildren(s, node.kids, 1, node.tag, d)

\* processNode; b numbers the calls, at is where the node is in the tree
ProcessNode(s0, node, parentTag, at) ==
    LET b == s0.blk + 1
        s == [s0 EXCEPT !.blk = b]
    IN CASE node.tag \in HeadingTags -> ProcessHeading(s, node, b)
         [] node.tag = "p" -> ProcessP(s, node, b)
         [] node.tag \in ListTags -> ProcessList(s, node, at.d, b)
         [] node.tag = "li" -> ProcessLi(s, node, parentTag, at, b)
         [] node.tag = "blockquote" -> ProcessBlockquote(s, node, b)
         [] node.tag = "pre" -> ProcessPre(s, node, b)
         [] node.tag = "table" -> ProcessTable(s, node, b)
         [] node.tag = "hr" -> ProcessHr(s, node, b)
         [] OTHER -> ProcessDefault(s, node, at.d)

----------------------------------------------------------------------------
(* The root loop of renderToPdf on the letter document that                *)
(* downloadMarkdownAsPdf creates.  The element children of the root are    *)
(* taken one at a time, each any block of Blocks.                          *)

Init ==
    /\ pc = "walk"
    /\ y = MARGIN
    /\ numPages = 1
    /\ listDepth = 0
    /\ listCounters = <<>>
    /\ emitted = <<>>
    /\ exportPc = "layout"
    /\ markdown = <<"a">>
    /\ processed = <<"a">>
    /\ html = <<>>
    /\ error = "none"
    /\ started = <<"compile", "sanitize", "layout">>
    /\ logged = 0
    /\ savedPages = 0
    /\ AppIdle

Cursor ==
    [y |-> y, page |-> numPages, depth |-> listDepth,
     counters |-> listCounters, ops |-> <<>>, blk |-> 0]

\* root.childNodes.forEach: the next element child is processed
RootChild(node) ==
    /\ pc = "walk"
    /\ numPages < MaxPages
    /\ y <= PageHeight
    /\ LET r == ProcessNode(Cursor, node, "div", At(<<node>>, 1, 0))
       IN /\ y' = r.y
          /\ numPages' = r.page
          /\ listDepth' = r.depth
          /\ listCounters' = r.counters
          /\ emitted' = r.ops
    /\ pc' = "node"
    /\ UNCHANGED exportVars
    /\ UNCHANGED appVars

Heading(F) == \E node \in F : node.tag \in HeadingTags /\ RootChild(node)
Paragraph(F) == \E node \in F : node.tag = "p" /\ RootChild(node)
ListBlock(F) == \E node \in F : node.tag \in ListTags /\ RootChild(node)
ListItem(F) == \E node \in F : node.tag = "li" /\ RootChild(node)
Blockquote(F) == \E node \in F : node.tag = "blockquote" /\ RootChild(node)
Pre(F) == \E node \in F : node.tag = "pre" /\ RootChild(node)
Table(F) == \E node \in F : node.tag = "table" /\ RootChild(node)
Hr(F) == \E node \in F : node.tag = "hr" /\ RootChild(node)
Default(F) == \E node \in F : node.tag = "div" /\ RootChild(node)

\* processNode has returned to the root loop
RootAdvance ==
    /\ pc = "node"
    /\ pc' = "walk"
    /\ emitted' = <<>>
    /\ UNCHANGED <<y, numPages, listDepth, listCounters>>
    /\ UNCHANGED exportVars
    /\ UNCHANGED appVars

\* the root loop has no further child: renderToPdf returns
RootEnd ==
    /\ pc = "walk"
    /\ pc' = "done"
    /\ UNCHANGED <<y, numPages, listDepth, listCounters, emitted>>
    /\ UNCHANGED exportVars
    /\ UNCHANGED appVars

Next ==
    \/ Heading(Blocks)
    \/ Paragraph(Blocks)
    \/ ListBlock(Blocks)
    \/ ListItem(Blocks)
    \/ Blockquote(Blocks)
    \/ Pre(Blocks)
    \/ Table(Blocks)
    \/ Hr(Blocks)
    \/ Default(Blocks)
    \/ RootAdvance
    \/ RootEnd

Spec == Init /\ [][Next]_vars

NextLists ==
    \/ Paragraph(ListBlocks)
    \/ ListBlock(ListBlocks)
    \/ ListItem(ListBlocks)
    \/ Default(ListBlocks)
    \/ RootAdvance
    \/ RootEnd

SpecLists == Init /\ [][NextLists]_vars

----------------------------------------------------------------------------
(* downloadMarkdownAsPdf.  A markdown text is a sequence of characters,    *)
(* each a string of length one.                                            *)

LF == "\n"
Chars == {" ", LF, "a"}
Whitespace == {" ", LF}

RECURSIVE SeqsUpTo(_, _)
SeqsUpTo(S, n) ==
    IF n = 0 THEN {<<>>}
    ELSE LET R == SeqsUpTo(S, n - 1)
         IN R \cup {Append(r, c) : r \in {q \in R : Len(q) = n - 1}, c \in S}

Markdowns == SeqsUpTo(Chars, MaxMdLen)

RECURSIVE TrimStart(_)
TrimStart(s) ==
    IF s # <<>> /\ Head(s) \in Whitespace THEN TrimStart(Tail(s)) ELSE s

RECURSIVE TrimEnd(_)
TrimEnd(s) ==
    IF s # <<>> /\ s[Len(s)] \in Whitespace
    THEN TrimEnd(SubSeq(s, 1, Len(s) - 1)) ELSE s

\* String.prototype.trim
Trim(s) == TrimEnd(TrimStart(s))


(* convertLatexToUnicode.  A glyph of the table is one character, named by *)
(* its code point.                                                         *)

Letters ==
    {"a", "b", "c", "d", "e", "f", "g", "h", "i", "j", "k", "l", "m",
     "n", "o", "p", "q", "r", "s", "t", "u", "v", "w", "x", "y", "z",
     "A", "B", "C", "D", "E", "F", "G", "H", "I", "J", "K", "L", "M",
     "N", "O", "P", "Q", "R", "S", "T", "U", "V", "W", "X", "Y", "Z"}

LATEX_TO_UNICODE == <<
    [cmd |-> <<"\\", "r", "i", "g", "h", "t", "a", "r", "r", "o", "w">>, unicode |-> "U+2192"],
    [cmd |-> <<"\\", "l", "e", "f", "t", "a", "r", "r", "o", "w">>, unicode |-> "U+2190"],
    [cmd |-> <<"\\", "u", "p", "a", "r", "r", "o", "w">>, unicode |-> "U+2191"],
    [cmd |-> <<"\\", "d", "o", "w", "n", "a", "r", "r", "o", "w">>, unicode |-> "U+2193"],
    [cmd |-> <<"\\", "l", "e", "f", "t", "r", "i", "g", "h", "t", "a", "r", "r", "o", "w">>, unicode |-> "U+2194"],
    [cmd |-> <<"\\", "R", "i", "g", "h", "t", "a", "r", "r", "o", "w">>, unicode |-> "U+21D2"],
    [cmd |-> <<"\\", "L", "e", "f", "t", "a", "r", "r", "o", "w">>, unicode |-> "U+21D0"],
    [cmd |-> <<"\\", "t", "o">>, unicode |-> "U+2192"],
    [cmd |-> <<"\\", "l", "e", "q">>, unicode |-> "U+2264"],
    [cmd |-> <<"\\", "g", "e", "q">>, unicode |-> "U+2265"],
    [cmd |-> <<"\\", "n", "e", "q">>, unicode |-> "U+2260"],
    [cmd |-> <<"\\", "a", "p", "p", "r", "o", "x">>, unicode |-> "U+2248"],
    [cmd |-> <<"\\", "a", "l", "p", "h", "a">>, unicode |-> "U+03B1"],
    [cmd |-> <<"\\", "b", "e", "t", "a">>, unicode |-> "U+03B2"],
    [cmd |-> <<"\\", "g", "a", "m", "m", "a">>, unicode |-> "U+03B3"],
    [cmd |-> <<"\\", "d", "e", "l", "t", "a">>, unicode |-> "U+03B4"],
    [cmd |-> <<"\\", "t", "h", "e", "t", "a">>, unicode |-> "U+03B8"],
    [cmd |-> <<"\\", "l", "a", "m", "b", "d", "a">>, unicode |-> "U+03BB"],
    [cmd |-> <<"\\", "m", "u">>, unicode |-> "U+03BC"],
    [cmd |-> <<"\\", "p", "i">>, unicode |-> "U+03C0"],
    [cmd |-> <<"\\", "s", "i", "g", "m", "a">>, unicode |-> "U+03C3"],
    [cmd |-> <<"\\", "p", "h", "i">>, unicode |-> "U+03C6"],
    [cmd |-> <<"\\", "o", "m", "e", "g", "a">>, unicode |-> "U+03C9"],
    [cmd |-> <<"\\", "S", "i", "g", "m", "a">>, unicode |-> "U+03A3"],
    [cmd |-> <<"\\", "O", "m", "e", "g", "a">>, unicode |-> "U+03A9"],
    [cmd |-> <<"\\", "s", "t", "a", "r">>, unicode |-> "U+2605"],
    [cmd |-> <<"\\", "s", "q", "u", "a", "r", "e">>, unicode |-> "U+25A1"],
    [cmd |-> <<"\\", "b", "u", "l", "l", "e", "t">>, unicode |-> "U+2022"],
    [cmd |-> <<"\\", "c", "i", "r", "c">>, unicode |-> "U+25CB"],
    [cmd |-> <<"\\", "t", "i", "m", "e", "s">>, unicode |-> "U+00D7"],
    [cmd |-> <<"\\", "d", "i", "v">>, unicode |-> "U+00F7"],
    [cmd |-> <<"\\", "p", "m">>, unicode |-> "U+00B1"],
    [cmd |-> <<"\\", "i", "n", "f", "t", "y">>, unicode |-> "U+221E"],
    [cmd |-> <<"\\", "f", "o", "r", "a", "l", "l">>, unicode |-> "U+2200"],
    [cmd |-> <<"\\", "e", "x", "i", "s", "t", "s">>, unicode |-> "U+2203"],
    [cmd |-> <<"\\", "i", "n">>, unicode |-> "U+2208"],
    [cmd |-> <<"\\", "s", "u", "m">>, unicode |-> "U+03A3"],
    [cmd |-> <<"\\", "c", "h", "e", "c", "k", "m", "a", "r", "k">>, unicode |-> "U+2713"],
    [cmd |-> <<"\\", "l", "d", "o", "t", "s">>, unicode |-> "U+2026"],
    [cmd |-> <<"\\", "d", "e", "g", "r", "e", "e">>, unicode |-> "U+00B0"]
>>

Drop(t, n) == SubSeq(t, n + 1, Len(t))

\* cmd is found at the start of t
MatchesAt(t, cmd) == Len(t) >= Len(cmd) /\ SubSeq(t, 1, Len(cmd)) = cmd

RECURSIVE ReplaceAll(_, _, _)
\* result.replace(new RegExp(cmd, 'g'), unicode): every occurrence, left to right
ReplaceAll(t, cmd, unicode) ==
    IF t = <<>> THEN <<>>
    ELSE IF MatchesAt(t, cmd)
         THEN <<unicode>> \o ReplaceAll(Drop(t, Len(cmd)), cmd, unicode)
         ELSE <<Head(t)>> \o ReplaceAll(Tail(t), cmd, unicode)

\* mutant: the table is iterated from its last entry to its first
RECURSIVE ApplyTableReversed(_, _, _)
ApplyTableReversed(t, table, i) ==
    IF i > Len(table) THEN t
    ELSE ApplyTableReversed(ReplaceAll(t, table[Len(table) + 1 - i].cmd,
                                       table[Len(table) + 1 - i].unicode),
                            table, i + 1)

RECURSIVE ApplyTable(_, _, _)
\* for (const [cmd, unicode] of Object.entries(LATEX_TO_UNICODE))
ApplyTable(t, table, i) ==
    IF i > Len(table) THEN t
    ELSE ApplyTable(ReplaceAll(t, table[i].cmd, table[i].unicode), table, i + 1)

RECURSIVE LetterRun(_)
\* the number of letters t starts with
LetterRun(t) ==
    IF t # <<>> /\ Head(t) \in Letters THEN 1 + LetterRun(Tail(t)) ELSE 0

RECURSIVE StripMacros(_)
\* replace(/\\[a-zA-Z]+/g, '')
StripMacros(t) ==
    IF t = <<>> THEN <<>>
    ELSE IF Head(t) = "\\" /\ LetterRun(Tail(t)) > 0
         THEN StripMacros(Drop(t, 1 + LetterRun(Tail(t))))
         ELSE <<Head(t)>> \o StripMacros(Tail(t))

\* replace(/[{}]/g, '')
StripBraces(t) == SelectSeq(t, LAMBDA c : c \notin {"{", "}"})

\* mutant: an emptied span is returned empty
ConvertSpanNoFallback(latex) ==
    LET result == ApplyTable(Trim(latex), LATEX_TO_UNICODE, 1)
    IN Trim(StripBraces(StripMacros(result)))

\* the replacer callback for one match; latex is the captured group
ConvertSpan(latex) ==
    LET result == ApplyTable(Trim(latex), LATEX_TO_UNICODE, 1)
        stripped == Trim(StripBraces(StripMacros(result)))
    IN IF stripped = <<>> THEN latex ELSE stripped

RECURSIVE NotDollarRun(_)
\* the number of characters other than $ that t starts with
NotDollarRun(t) ==
    IF t # <<>> /\ Head(t) # "$" THEN 1 + NotDollarRun(Tail(t)) ELSE 0

RECURSIVE ConvertLatexToUnicode(_)
\* text.replace(/\$([^$]+)\$/g, ...): the matches are found left to right
ConvertLatexToUnicode(text) ==
    IF text = <<>> THEN <<>>
    ELSE LET n == NotDollarRun(Tail(text))
         IN IF Head(text) = "$" /\ n > 0 /\ Len(text) >= n + 2
            THEN ConvertSpan(SubSeq(text, 2, n + 1))
                 \o ConvertLatexToUnicode(Drop(text, n + 2))
            ELSE <<Head(text)>> \o ConvertLatexToUnicode(Tail(text))

ExportBlocks ==
    {Leaf("h1", 1), Leaf("p", MaxLines), List("ol", <<PlainItem>>)}
HtmlDocs == SeqsUpTo(ExportBlocks, MaxHtmlBlocks)

StepErrors == {"compileError", "sanitizeError", "layoutError", "saveError"}

\* renderToPdf(doc, html) as one call: the root loop over all children
RenderToPdf(pages, children) ==
    ProcessChildren([y |-> MARGIN, page |-> pages, depth |-> 0,
                     counters |-> <<>>, ops |-> <<>>, blk |-> 0],
                    children, 1, "div", 0)

InitExport ==
    /\ pc = "idle"
    /\ y = MARGIN
    /\ numPages = 0
    /\ listDepth = 0
    /\ listCounters = <<>>
    /\ emitted = <<>>
    /\ exportPc = "start"
    /\ markdown \in Markdowns
    /\ processed = <<>>
    /\ html = <<>>
    /\ error = "none"
    /\ started = <<>>
    /\ logged = 0
    /\ savedPages = 0
    /\ AppIdle

\* mutant: the empty check without trim (!markdown)
CallNoTrim ==
    /\ exportPc = "start"
    /\ IF markdown = <<>>
       THEN /\ exportPc' = "rejected"
            /\ error' = "EmptyMarkdownError"
            /\ UNCHANGED <<started, processed>>
       ELSE /\ exportPc' = "compile"
            /\ started' = Append(started, "compile")
            /\ processed' = ConvertLatexToUnicode(markdown)
            /\ UNCHANGED error
    /\ UNCHANGED <<markdown, html, logged, savedPages>>
    /\ UNCHANGED layoutVars
    /\ UNCHANGED appVars

\* mutant: the empty check inverted (markdown.trim() instead of !markdown.trim())
CallInverted ==
    /\ exportPc = "start"
    /\ IF Trim(markdown) # <<>>
       THEN /\ exportPc' = "rejected"
            /\ error' = "EmptyMarkdownError"
            /\ UNCHANGED <<started, processed>>
       ELSE /\ exportPc' = "compile"
            /\ started' = Append(started, "compile")
            /\ processed' = ConvertLatexToUnicode(markdown)
            /\ UNCHANGED error
    /\ UNCHANGED <<markdown, html, logged, savedPages>>
    /\ UNCHANGED layoutVars
    /\ UNCHANGED appVars

\* the call up to its first await: the empty check, then markdownToHtml
Call ==
    /\ exportPc = "start"
    /\ IF Trim(markdown) = <<>>
       THEN /\ exportPc' = "rejected"
            /\ error' = "EmptyMarkdownError"
            /\ UNCHANGED <<started, processed>>
       ELSE /\ exportPc' = "compile"
            /\ started' = Append(started, "compile")
            /\ processed' = ConvertLatexToUnicode(markdown)
            /\ UNCHANGED error
    /\ UNCHANGED <<markdown, html, logged, savedPages>>
    /\ UNCHANGED layoutVars
    /\ UNCHANGED appVars

\* mutant: the catch block throws a new error in place of the one caught
CatchWraps(e) ==
    /\ logged' = logged + 1
    /\ error' = "Error"
    /\ exportPc' = "rejected"

\* catch (error) { console.error(...); throw error; }
Catch(e) ==
    /\ logged' = logged + 1
    /\ error' = e
    /\ exportPc' = "rejected"

\* await markdownToHtml(markdown) resolves; DOMPurify.sanitize is called
CompileResolves ==
    /\ exportPc = "compile"
    /\ exportPc' = "sanitize"
    /\ started' = Append(started, "sanitize")
    /\ UNCHANGED <<markdown, processed, html, error, logged, savedPages>>
    /\ UNCHANGED layoutVars
    /\ UNCHANGED appVars

CompileRejects ==
    /\ exportPc = "compile"
    /\ Catch("compileError")
    /\ UNCHANGED <<markdown, processed, html, started, savedPages>>
    /\ UNCHANGED layoutVars
    /\ UNCHANGED appVars

\* sanitize returns clean; new jsPDF(...) makes a document of one page;
\* renderToPdf is called
SanitizeReturns ==
    /\ exportPc = "sanitize"
    /\ \E h \in HtmlDocs : html' = h
    /\ numPages' = 1
    /\ exportPc' = "layout"
    /\ started' = Append(started, "layout")
    /\ UNCHANGED <<markdown, processed, error, logged, savedPages>>
    /\ UNCHANGED <<pc, y, listDepth, listCounters, emitted>>
    /\ UNCHANGED appVars

SanitizeThrows ==
    /\ exportPc = "sanitize"
    /\ Catch("sanitizeError")
    /\ UNCHANGED <<markdown, processed, html, started, savedPages>>
    /\ UNCHANGED layoutVars
    /\ UNCHANGED appVars

\* renderToPdf(doc, clean) returns; doc.save is called
LayoutReturns ==
    /\ exportPc = "layout"
    /\ LET r == RenderToPdf(numPages, html)
       IN /\ y' = r.y
          /\ numPages' = r.page
          /\ listDepth' = r.depth
          /\ listCounters' = r.counters
          /\ emitted' = r.ops
    /\ pc' = "done"
    /\ exportPc' = "save"
    /\ started' = Append(started, "save")
    /\ UNCHANGED <<markdown, processed, html, error, logged, savedPages>>
    /\ UNCHANGED appVars

\* mutant: the error of the layout is logged and the document saved anyway
LayoutThrowsThenSaves ==
    /\ exportPc = "layout"
    /\ logged' = logged + 1
    /\ error' = "layoutError"
    /\ exportPc' = "save"
    /\ started' = Append(started, "save")
    /\ UNCHANGED <<markdown, processed, html, savedPages>>
    /\ UNCHANGED layoutVars
    /\ UNCHANGED appVars

LayoutThrows ==
    /\ exportPc = "layout"
    /\ Catch("layoutError")
    /\ UNCHANGED <<markdown, processed, html, started, savedPages>>
    /\ UNCHANGED layoutVars
    /\ UNCHANGED appVars

SaveReturns ==
    /\ exportPc = "save"
    /\ savedPages' = numPages
    /\ exportPc' = "resolved"
    /\ UNCHANGED <<markdown, processed, html, error, started, logged>>
    /\ UNCHANGED layoutVars
    /\ UNCHANGED appVars

SaveThrows ==
    /\ exportPc = "save"
    /\ Catch("saveError")
    /\ UNCHANGED <<markdown, processed, html, started, savedPages>>
    /\ UNCHANGED layoutVars
    /\ UNCHANGED appVars

NextExport ==
    \/ Call
    \/ CompileResolves
    \/ CompileRejects
    \/ SanitizeReturns
    \/ SanitizeThrows
    \/ LayoutReturns
    \/ LayoutThrows
    \/ SaveReturns
    \/ SaveThrows

SpecExport == InitExport /\ [][NextExport]_vars

----------------------------------------------------------------------------
(* Two calls of downloadMarkdownAsPdf in flight at once.  y, listDepth and *)
(* listCounters are locals of renderToPdf and doc is created in the call,  *)
(* so there is one instance of every variable per call: under SpecCalls    *)
(* each variable is a function from the call to that call's instance, and  *)
(* pc is the number of root children the call's walk has processed.        *)
(* JavaScript suspends a call only at the await of markdownToHtml and runs *)
(* the rest to completion; the actions below let the other call run        *)
(* between any two root children as well, which includes that schedule.    *)

Calls == {"first", "second"}
Other(c) == CHOOSE d \in Calls : d # c

CallMarkdowns == {<<"a">>, <<" ">>}
CallBlocks ==
    {Leaf("p", 1), Leaf("pre", MaxCodeLines), List("ol", <<PlainItem, PlainItem>>)}
CallDocs == SeqsUpTo(CallBlocks, MaxCallBlocks)

InitCalls ==
    /\ pc = [c \in Calls |-> 0]
    /\ y = [c \in Calls |-> MARGIN]
    /\ numPages = [c \in Calls |-> 0]
    /\ listDepth = [c \in Calls |-> 0]
    /\ listCounters = [c \in Calls |-> <<>>]
    /\ emitted = [c \in Calls |-> <<>>]
    /\ exportPc = [c \in Calls |-> "start"]
    /\ markdown \in [Calls -> CallMarkdowns]
    /\ processed = [c \in Calls |-> <<>>]
    /\ html = [c \in Calls |-> <<>>]
    /\ error = [c \in Calls |-> "none"]
    /\ started = [c \in Calls |-> <<>>]
    /\ logged = [c \in Calls |-> 0]
    /\ savedPages = [c \in Calls |-> 0]
    /\ AppIdle

\* mutant: one cursor y for all calls, declared outside renderToPdf
CursorShared(c) ==
    [y |-> y["first"], page |-> numPages[c], depth |-> listDepth[c],
     counters |-> listCounters[c], ops |-> emitted[c], blk |-> 0]

\* the closure variables and the surface of call c
CursorOf(c) ==
    [y |-> y[c], page |-> numPages[c], depth |-> listDepth[c],
     counters |-> listCounters[c], ops |-> emitted[c], blk |-> 0]

\* the call up to its first await: the empty check, then markdownToHtml
CallStart(c) ==
    /\ exportPc[c] = "start"
    /\ IF Trim(markdown[c]) = <<>>
       THEN /\ exportPc' = [exportPc EXCEPT ![c] = "rejected"]
            /\ error' = [error EXCEPT ![c] = "EmptyMarkdownError"]
            /\ UNCHANGED <<started, processed>>
       ELSE /\ exportPc' = [exportPc EXCEPT ![c] = "compile"]
            /\ started' = [started EXCEPT ![c] = Append(@, "compile")]
            /\ processed' =
                  [processed EXCEPT ![c] = ConvertLatexToUnicode(markdown[c])]
            /\ UNCHANGED error
    /\ UNCHANGED <<markdown, html, logged, savedPages>>
    /\ UNCHANGED layoutVars
    /\ UNCHANGED appVars

\* mutant: renderToPdf starts at the cursor the other call left
CallCompiledKeepsCursor(c) ==
    /\ exportPc[c] = "compile"
    /\ \E h \in CallDocs : html' = [html EXCEPT ![c] = h]
    /\ numPages' = [numPages EXCEPT ![c] = 1]
    /\ y' = [y EXCEPT ![c] = y[Other(c)]]
    /\ listDepth' = [listDepth EXCEPT ![c] = 0]
    /\ listCounters' = [listCounters EXCEPT ![c] = <<>>]
    /\ pc' = [pc EXCEPT ![c] = 0]
    /\ exportPc' = [exportPc EXCEPT ![c] = "layout"]
    /\ started' = [started EXCEPT ![c] = @ \o <<"sanitize", "layout">>]
    /\ UNCHANGED <<markdown, processed, error, logged, savedPages, emitted>>
    /\ UNCHANGED appVars

\* the await resolves: sanitize returns clean, new jsPDF makes a document
\* of one page, renderToPdf parses clean and initialises its locals
CallCompiled(c) ==
    /\ exportPc[c] = "compile"
    /\ \E h \in CallDocs : html' = [html EXCEPT ![c] = h]
    /\ numPages' = [numPages EXCEPT ![c] = 1]
    /\ y' = [y EXCEPT ![c] = MARGIN]
    /\ listDepth' = [listDepth EXCEPT ![c] = 0]
    /\ listCounters' = [listCounters EXCEPT ![c] = <<>>]
    /\ pc' = [pc EXCEPT ![c] = 0]
    /\ exportPc' = [exportPc EXCEPT ![c] = "layout"]
    /\ started' = [started EXCEPT ![c] = @ \o <<"sanitize", "layout">>]
    /\ UNCHANGED <<markdown, processed, error, logged, savedPages, emitted>>
    /\ UNCHANGED appVars

\* root.childNodes.forEach of call c: its next element child is processed
CallChild(c) ==
    /\ exportPc[c] = "layout"
    /\ pc[c] < Len(html[c])
    /\ LET r == ProcessNode(CursorOf(c), html[c][pc[c] + 1], "div",
                            At(html[c], pc[c] + 1, 0))
       IN /\ y' = [y EXCEPT ![c] = r.y]
          /\ numPages' = [numPages EXCEPT ![c] = r.page]
          /\ listDepth' = [listDepth EXCEPT ![c] = r.depth]
          /\ listCounters' = [listCounters EXCEPT ![c] = r.counters]
          /\ emitted' = [emitted EXCEPT ![c] = r.ops]
    /\ pc' = [pc EXCEPT ![c] = @ + 1]
    /\ UNCHANGED exportVars
    /\ UNCHANGED appVars

\* renderToPdf of call c returns; doc.save is called
CallLayoutReturns(c) ==
    /\ exportPc[c] = "layout"
    /\ pc[c] = Len(html[c])
    /\ exportPc' = [exportPc EXCEPT ![c] = "save"]
    /\ started' = [started EXCEPT ![c] = Append(@, "save")]
    /\ UNCHANGED <<markdown, processed, html, error, logged, savedPages>>
    /\ UNCHANGED layoutVars
    /\ UNCHANGED appVars

CallSaved(c) ==
    /\ exportPc[c] = "save"
    /\ savedPages' = [savedPages EXCEPT ![c] = numPages[c]]
    /\ exportPc' = [exportPc EXCEPT ![c] = "resolved"]
    /\ UNCHANGED <<markdown, processed, html, error, started, logged>>
    /\ UNCHANGED layoutVars
    /\ UNCHANGED appVars

\* a step of call c throws: catch logs the error and rethrows it
CallThrows(c) ==
    /\ exportPc[c] \in {"compile", "layout", "save"}
    /\ logged' = [logged EXCEPT ![c] = @ + 1]
    /\ error' = [error EXCEPT ![c] =
                     CASE exportPc[c] = "compile" -> "compileError"
                       [] exportPc[c] = "layout" -> "layoutError"
                       [] OTHER -> "saveError"]
    /\ exportPc' = [exportPc EXCEPT ![c] = "rejected"]
    /\ UNCHANGED <<markdown, processed, html, started, savedPages>>
    /\ UNCHANGED layoutVars
    /\ UNCHANGED appVars

NextCalls ==
    \E c \in Calls :
        \/ CallStart(c)
        \/ CallCompiled(c)
        \/ CallChild(c)
        \/ CallLayoutReturns(c)
        \/ CallSaved(c)
        \/ CallThrows(c)

SpecCalls == InitCalls /\ [][NextCalls]_vars

----------------------------------------------------------------------------
(* renderToPdf on malformed but parseable trees: items without a list,     *)
(* lists with children that are not items, tables without rows or cells,   *)
(* elements without text, and the empty root.                              *)

RowlessTable == Node("table", 0, "none", <<>>, <<>>)

TreeBlocks ==
    {PlainItem, Li(1, "checked", <<>>),
     Li(0, "none", <<List("ol", <<PlainItem>>)>>),
     Div(<<PlainItem>>), Div(<<>>), Div(<<Div(<<Leaf("p", MaxLines)>>)>>),
     List("ol", <<Div(<<PlainItem>>), PlainItem>>),
     List("ul", <<Leaf("p", 1)>>),
     List("ol", <<List("ol", <<PlainItem>>)>>),
     RowlessTable,
     Node("table", 0, "none", <<>>, <<Row(FALSE, 0), Row(FALSE, MaxCols)>>),
     Leaf("h1", 0), Leaf("pre", 0), Leaf("pre", MaxLines), Leaf("p", MaxLines)}

TreeDocs == SeqsUpTo(TreeBlocks, MaxTreeBlocks)

\* renderToPdf(doc, clean) is about to be called on a document of one page
InitTrees ==
    /\ pc = "idle"
    /\ y = MARGIN
    /\ numPages = 1
    /\ listDepth = 0
    /\ listCounters = <<>>
    /\ emitted = <<>>
    /\ exportPc = "layout"
    /\ markdown = <<"a">>
    /\ processed = <<"a">>
    /\ html \in TreeDocs
    /\ error = "none"
    /\ started = <<"compile", "sanitize", "layout">>
    /\ logged = 0
    /\ savedPages = 0
    /\ AppIdle

NextTrees ==
    \/ LayoutReturns
    \/ SaveReturns
    \/ SaveThrows

SpecTrees == InitTrees /\ [][NextTrees]_vars

----------------------------------------------------------------------------
(* renderToPdf on elements without handler and direct text nodes *)

Text(lines) == Node("#text", lines, "none", <<>>, <<>>)
UnknownTags == {"div", "span", "a", "strong", "thead"}

InlineBlocks ==
    {Node(t, 0, "none", kids, <<>>) :
        t \in UnknownTags,
        kids \in {<<>>, <<Text(1)>>,
                  <<Text(1), Leaf("p", 1), Text(MaxLines)>>,
                  <<Node("span", 0, "none", <<Text(1), Leaf("p", MaxLines)>>, <<>>)>>}}
    \cup {Text(1), Leaf("p", 1)}

InlineDocs == SeqsUpTo(InlineBlocks, MaxInlineBlocks)

InitInline ==
    /\ pc = "idle"
    /\ y = MARGIN
    /\ numPages = 1
    /\ listDepth = 0
    /\ listCounters = <<>>
    /\ emitted = <<>>
    /\ exportPc = "layout"
    /\ markdown = <<"a">>
    /\ processed = <<"a">>
    /\ html \in InlineDocs
    /\ error = "none"
    /\ started = <<"compile", "sanitize", "layout">>
    /\ logged = 0
    /\ savedPages = 0
    /\ AppIdle

SpecInline == InitInline /\ [][NextTrees]_vars

----------------------------------------------------------------------------
(* renderToPdf on documents of headings *)

HeadingDocs ==
    SeqsUpTo({Leaf(t, l) : t \in HeadingTags, l \in 0..MaxLines}, MaxHeadings)

InitHeadings ==
    /\ pc = "idle"
    /\ y = MARGIN
    /\ numPages = 1
    /\ listDepth = 0
    /\ listCounters = <<>>
    /\ emitted = <<>>
    /\ exportPc = "layout"
    /\ markdown = <<"a">>
    /\ processed = <<"a">>
    /\ html \in HeadingDocs
    /\ error = "none"
    /\ started = <<"compile", "sanitize", "layout">>
    /\ logged = 0
    /\ savedPages = 0
    /\ AppIdle

SpecHeadings == InitHeadings /\ [][NextTrees]_vars

----------------------------------------------------------------------------
(* markdownToHtml on texts with math: between delimiters (none, $ or $$)   *)
(* up to MaxSpanPieces pieces, each a table macro, an unknown macro, a      *)
(* brace, a blank or a letter.                                             *)

SpanPieces ==
    {<<"\\", "i", "n">>, <<"\\", "i", "n", "f", "t", "y">>, <<"\\", "t", "o">>,
     <<"\\", "q">>, <<"{">>, <<" ">>, <<"t">>}

RECURSIVE Concat(_)
Concat(ps) == IF ps = <<>> THEN <<>> ELSE Head(ps) \o Concat(Tail(ps))

Bodies == {Concat(ps) : ps \in SeqsUpTo(SpanPieces, MaxSpanPieces)}
Delims == {<<>>, <<"$">>, <<"$", "$">>}

\* $\alpha \to \beta$
AlphaToBeta ==
    <<"$", "\\", "a", "l", "p", "h", "a", " ", "\\", "t", "o", " ",
      "\\", "b", "e", "t", "a", "$">>

LatexTexts ==
    {o \o b \o c : o \in Delims, b \in Bodies, c \in Delims}
    \cup {<<"t", " ", "$">> \o b \o <<"$", " ", "t">> : b \in Bodies}
    \cup {<<"$">> \o b \o <<"$", "$", "\\", "i", "n", "f", "t", "y", "$">> :
            b \in Bodies}
    \cup {AlphaToBeta}

InitLatex ==
    /\ pc = "idle"
    /\ y = MARGIN
    /\ numPages = 0
    /\ listDepth = 0
    /\ listCounters = <<>>
    /\ emitted = <<>>
    /\ exportPc = "start"
    /\ markdown \in LatexTexts
    /\ processed = <<>>
    /\ html = <<>>
    /\ error = "none"
    /\ started = <<>>
    /\ logged = 0
    /\ savedPages = 0
    /\ AppIdle

\* the call up to the await of remark, and the outcome of the await
NextLatex ==
    \/ Call
    \/ CompileResolves
    \/ CompileRejects

SpecLatex == InitLatex /\ [][NextLatex]_vars

----------------------------------------------------------------------------
(* MainPage.handleDownloadPDF around downloadMarkdownAsPdf.  mainPage is    *)
(* [isGeneratingPdf, error, editorMarkdown, exports]: the three pieces of  *)
(* state the handler reads and writes and the number of clicks so far.     *)

EmptyMessage == "No content to download. Add some notes first!"
GenericMessage == "Failed to generate PDF. Please try again."

\* editorMarkdown: empty, blank and with content
PageMarkdowns == {<<>>, <<" ">>, <<"a">>}

InitDownload ==
    /\ pc = "idle"
    /\ y = MARGIN
    /\ numPages = 0
    /\ listDepth = 0
    /\ listCounters = <<>>
    /\ emitted = <<>>
    /\ exportPc = "idle"
    /\ markdown = <<>>
    /\ processed = <<>>
    /\ html = <<>>
    /\ error = "none"
    /\ started = <<>>
    /\ logged = 0
    /\ savedPages = 0
    /\ mainPage = [isGeneratingPdf |-> FALSE, error |-> "null",
                   editorMarkdown |-> <<>>, exports |-> 0]
    /\ hook = <<>>
    /\ editor = <<>>
    /\ server = <<>>

\* onMarkdownChange of the editor: setEditorMarkdown(markdown)
HandleMarkdownChange ==
    /\ \E m \in PageMarkdowns \ {mainPage.editorMarkdown} :
          mainPage' = [mainPage EXCEPT !.editorMarkdown = m]
    /\ UNCHANGED <<hook, editor, server>>
    /\ UNCHANGED pdfVars

\* the close button of the error banner: setError(null)
DismissError ==
    /\ mainPage.error # "null"
    /\ mainPage' = [mainPage EXCEPT !.error = "null"]
    /\ UNCHANGED <<hook, editor, server>>
    /\ UNCHANGED pdfVars

\* a click on the download button, which is disabled while isGeneratingPdf:
\* setError(null); setIsGeneratingPdf(true); downloadMarkdownAsPdf is called
\* with editorMarkdown and runs up to its first await
HandleDownloadPDF ==
    /\ ~mainPage.isGeneratingPdf
    /\ mainPage.exports < MaxExports
    /\ mainPage' = [mainPage EXCEPT !.error = "null", !.isGeneratingPdf = TRUE,
                                    !.exports = @ + 1]
    /\ markdown' = mainPage.editorMarkdown
    /\ IF Trim(mainPage.editorMarkdown) = <<>>
       THEN /\ exportPc' = "rejected"
            /\ error' = "EmptyMarkdownError"
            /\ started' = <<>>
            /\ processed' = <<>>
       ELSE /\ exportPc' = "compile"
            /\ error' = "none"
            /\ started' = <<"compile">>
            /\ processed' = ConvertLatexToUnicode(mainPage.editorMarkdown)
    /\ html' = <<>>
    /\ logged' = 0
    /\ savedPages' = 0
    /\ pc' = "idle"
    /\ y' = MARGIN
    /\ numPages' = 0
    /\ listDepth' = 0
    /\ listCounters' = <<>>
    /\ emitted' = <<>>
    /\ UNCHANGED <<hook, editor, server>>

\* mutant: setIsGeneratingPdf(false) at the end of the try block, not in finally
DownloadSettlesNoFinally ==
    /\ exportPc \in {"resolved", "rejected"}
    /\ mainPage.isGeneratingPdf
    /\ mainPage' =
          IF exportPc = "resolved"
          THEN [mainPage EXCEPT !.isGeneratingPdf = FALSE]
          ELSE [mainPage EXCEPT
                   !.error = IF error = "EmptyMarkdownError" THEN EmptyMessage
                             ELSE GenericMessage]
    /\ exportPc' = "settled"
    /\ UNCHANGED <<markdown, processed, html, error, started, logged, savedPages>>
    /\ UNCHANGED layoutVars
    /\ UNCHANGED <<hook, editor, server>>

\* the awaited promise settles: the catch block, then finally
DownloadSettles ==
    /\ exportPc \in {"resolved", "rejected"}
    /\ mainPage.isGeneratingPdf
    /\ mainPage' =
          IF exportPc = "resolved"
          THEN [mainPage EXCEPT !.isGeneratingPdf = FALSE]
          ELSE [mainPage EXCEPT
                   !.error = IF error = "EmptyMarkdownError" THEN EmptyMessage
                             ELSE GenericMessage,
                   !.isGeneratingPdf = FALSE]
    /\ exportPc' = "settled"
    /\ UNCHANGED <<markdown, processed, html, error, started, logged, savedPages>>
    /\ UNCHANGED layoutVars
    /\ UNCHANGED <<hook, editor, server>>

NextDownload ==
    \/ HandleMarkdownChange
    \/ DismissError
    \/ HandleDownloadPDF
    \/ CompileResolves
    \/ CompileRejects
    \/ SanitizeReturns
    \/ SanitizeThrows
    \/ LayoutReturns
    \/ LayoutThrows
    \/ SaveReturns
    \/ SaveThrows
    \/ DownloadSettles

SpecDownload == InitDownload /\ [][NextDownload]_vars

----------------------------------------------------------------------------
(* useMarkdownPersistence.  hook is                                        *)
(*   mounted       the component that uses the hook is mounted             *)
(*   markdown      the state of the current instance                       *)
(*   saveTimerRef  saveTimerRef.current, 0 for undefined                   *)
(*   timers        the pending timeouts of the window: {[id, value]}       *)
(*   storage       localStorage[STORAGE_KEY], "null" when absent           *)
(*   storageFull   localStorage.setItem throws                             *)
(*   calls, last   the calls of updateMarkdown so far, the last value      *)
(*   nwrites, wrote, fired  the calls of setItem, the value and the timer  *)
(*                 of the last one                                         *)

DEFAULT_MARKDOWN == "default"
Values == {"a", "b", "c"}

\* clearTimeout(id)
ClearTimeout(timers, id) == {t \in timers : t.id # id}

\* mutant: the previous timer is not cleared
SaveToStorageKeepsTimer(h, value) ==
    [h EXCEPT !.timers = @ \cup {[id |-> h.calls, value |-> value]},
              !.saveTimerRef = h.calls]

\* saveToStorage(value): the timer of call n has id n
SaveToStorage(h, value) ==
    [h EXCEPT !.timers = ClearTimeout(@, h.saveTimerRef)
                             \cup {[id |-> h.calls, value |-> value]},
              !.saveTimerRef = h.calls]

\* updateMarkdown(value)
UpdateMarkdown(h, value) ==
    SaveToStorage([h EXCEPT !.markdown = value, !.last = value,
                            !.calls = @ + 1], value)

\* a new instance of the hook: useState initialiser and useRef
MountHook(h) ==
    [h EXCEPT !.mounted = TRUE,
              !.markdown = IF h.storage = "null" THEN DEFAULT_MARKDOWN
                           ELSE h.storage,
              !.saveTimerRef = 0]

\* the cleanup of the hook's effect
UnmountHook(h) ==
    [h EXCEPT !.mounted = FALSE,
              !.timers = ClearTimeout(@, h.saveTimerRef)]

InitPersistence ==
    /\ pc = "idle"
    /\ y = MARGIN
    /\ numPages = 0
    /\ listDepth = 0
    /\ listCounters = <<>>
    /\ emitted = <<>>
    /\ exportPc = "idle"
    /\ markdown = <<>>
    /\ processed = <<>>
    /\ html = <<>>
    /\ error = "none"
    /\ started = <<>>
    /\ logged = 0
    /\ savedPages = 0
    /\ mainPage = <<>>
    /\ \E full \in BOOLEAN :
          hook = [mounted |-> TRUE, markdown |-> DEFAULT_MARKDOWN,
                  saveTimerRef |-> 0, timers |-> {}, storage |-> "null",
                  storageFull |-> full, calls |-> 0, last |-> "none",
                  nwrites |-> 0, wrote |-> "none", fired |-> 0]
    /\ editor = <<>>
    /\ server = <<>>

\* the editor calls setMarkdown(value)
UpdateCall ==
    /\ hook.mounted
    /\ hook.calls < MaxUpdates
    /\ \E v \in Values : hook' = UpdateMarkdown(hook, v)
    /\ UNCHANGED <<mainPage, editor, server>>
    /\ UNCHANGED pdfVars

\* a timeout expires: localStorage.setItem(STORAGE_KEY, value) in try/catch
TimerFires ==
    /\ \E t \in hook.timers :
          hook' = [hook EXCEPT
                      !.timers = @ \ {t},
                      !.storage = IF hook.storageFull THEN @ ELSE t.value,
                      !.nwrites = @ + 1, !.wrote = t.value, !.fired = t.id]
    /\ UNCHANGED <<mainPage, editor, server>>
    /\ UNCHANGED pdfVars

\* handleNewNote, handleSelectNote, handleFileChange: setExtractedMarkdown(v)
\* and setEditorKey(prev => prev + 1); the old editor is unmounted, the new
\* one mounts and its effect calls setMarkdown(initialMarkdown)
Remount ==
    /\ hook.mounted
    /\ hook.calls < MaxUpdates
    /\ \E v \in Values :
          hook' = UpdateMarkdown(MountHook(UnmountHook(hook)), v)
    /\ UNCHANGED <<mainPage, editor, server>>
    /\ UNCHANGED pdfVars

\* onLoginRequest: AppRouter renders LoginPage in place of MainPage
LeavePage ==
    /\ hook.mounted
    /\ hook' = UnmountHook(hook)
    /\ UNCHANGED <<mainPage, editor, server>>
    /\ UNCHANGED pdfVars

\* onLoginSuccess: MainPage is mounted again, extractedMarkdown is null
ReturnToPage ==
    /\ ~hook.mounted
    /\ hook' = MountHook(hook)
    /\ UNCHANGED <<mainPage, editor, server>>
    /\ UNCHANGED pdfVars

NextPersistence ==
    \/ UpdateCall
    \/ TimerFires
    \/ Remount
    \/ LeavePage
    \/ ReturnToPage

SpecPersistence == InitPersistence /\ [][NextPersistence]_vars

\* a pending timeout expires after its delay
SpecPersistenceFair == SpecPersistence /\ WF_vars(TimerFires)

----------------------------------------------------------------------------
(* MilkdownEditor.  editor is                                              *)
(*   drawerOpen, drawerOpenRef  the state and the ref the listener reads   *)
(*   textarea       textareaRef.current.value                              *)
(*   syncTimer      the text of the pending debounced sync, or "none"      *)
(*   content        the document of the rich editor, as markdown           *)
(*   pendingUpdate  a markdownUpdated event of the rich editor is due      *)
(*   lastEvent      the handler that ran last                              *)
(* The root is made with createRoot: the render and the effects of a click *)
(* or input event run before the next event, so a handler is one step      *)
(* together with the effects that follow its state updates.                *)

InitEditor ==
    /\ pc = "idle"
    /\ y = MARGIN
    /\ numPages = 0
    /\ listDepth = 0
    /\ listCounters = <<>>
    /\ emitted = <<>>
    /\ exportPc = "idle"
    /\ markdown = <<>>
    /\ processed = <<>>
    /\ html = <<>>
    /\ error = "none"
    /\ started = <<>>
    /\ logged = 0
    /\ savedPages = 0
    /\ mainPage = <<>>
    /\ hook = [mounted |-> TRUE, markdown |-> DEFAULT_MARKDOWN,
               saveTimerRef |-> 0, timers |-> {}, storage |-> "null",
               storageFull |-> FALSE, calls |-> 0, last |-> "none",
               nwrites |-> 0, wrote |-> "none", fired |-> 0]
    /\ editor = [drawerOpen |-> FALSE, drawerOpenRef |-> FALSE,
                 textarea |-> "", syncTimer |-> "none",
                 content |-> DEFAULT_MARKDOWN, pendingUpdate |-> FALSE,
                 lastEvent |-> "mount"]
    /\ server = <<>>

\* syncToEditor(text): replaceAll(text); the editor will report the change
SyncToEditor(e, text) ==
    [e EXCEPT !.content = text, !.pendingUpdate = TRUE]

\* onClick={() => setDrawerOpen(true)}, then the effects on drawerOpen:
\* drawerOpenRef.current = true; textarea.value = markdownRef.current
OpenDrawer ==
    /\ ~editor.drawerOpen
    /\ editor' = [editor EXCEPT !.drawerOpen = TRUE, !.drawerOpenRef = TRUE,
                                !.textarea = hook.markdown,
                                !.lastEvent = "open"]
    /\ UNCHANGED <<mainPage, hook, server>>
    /\ UNCHANGED pdfVars

\* the user edits the document of the rich editor
EditorInput ==
    /\ \E v \in Values \ {editor.content} :
          editor' = [editor EXCEPT !.content = v, !.pendingUpdate = TRUE,
                                  !.lastEvent = "editorInput"]
    /\ UNCHANGED <<mainPage, hook, server>>
    /\ UNCHANGED pdfVars

\* mutant: the listener without the test of drawerOpenRef
MarkdownUpdatedUnguarded ==
    /\ editor.pendingUpdate
    /\ hook.calls < MaxEditorCalls
    /\ editor' = [editor EXCEPT !.pendingUpdate = FALSE,
                                !.lastEvent = "markdownUpdated"]
    /\ hook' = UpdateMarkdown(hook, editor.content)
    /\ UNCHANGED <<mainPage, server>>
    /\ UNCHANGED pdfVars

\* listener.markdownUpdated((_, nextMd) => ...)
MarkdownUpdated ==
    /\ editor.pendingUpdate
    /\ editor.drawerOpenRef \/ hook.calls < MaxEditorCalls
    /\ editor' = [editor EXCEPT !.pendingUpdate = FALSE,
                                !.lastEvent = "markdownUpdated"]
    /\ hook' = IF editor.drawerOpenRef THEN hook
               ELSE UpdateMarkdown(hook, editor.content)
    /\ UNCHANGED <<mainPage, server>>
    /\ UNCHANGED pdfVars

\* handleTextareaInput
HandleTextareaInput ==
    /\ editor.drawerOpen
    /\ hook.calls < MaxEditorCalls
    /\ \E newText \in Values \ {editor.textarea} :
          /\ editor' = [editor EXCEPT !.textarea = newText,
                                      !.syncTimer = newText,
                                      !.lastEvent = "textareaInput"]
          /\ hook' = UpdateMarkdown(hook, newText)
    /\ UNCHANGED <<mainPage, server>>
    /\ UNCHANGED pdfVars

\* the timeout of handleTextareaInput expires: syncToEditor(newText)
SyncFires ==
    /\ editor.syncTimer # "none"
    /\ editor' = [SyncToEditor(editor, editor.syncTimer) EXCEPT
                      !.syncTimer = "none", !.lastEvent = "sync"]
    /\ UNCHANGED <<mainPage, hook, server>>
    /\ UNCHANGED pdfVars

\* handleCloseDrawer, then the effect drawerOpenRef.current = false
HandleCloseDrawer ==
    /\ editor.drawerOpen
    /\ hook.calls < MaxEditorCalls
    /\ editor' = [SyncToEditor(editor, editor.textarea) EXCEPT
                      !.syncTimer = "none", !.drawerOpen = FALSE,
                      !.drawerOpenRef = FALSE, !.lastEvent = "close"]
    /\ hook' = UpdateMarkdown(hook, editor.textarea)
    /\ UNCHANGED <<mainPage, server>>
    /\ UNCHANGED pdfVars

NextEditor ==
    \/ OpenDrawer
    \/ EditorInput
    \/ MarkdownUpdated
    \/ HandleTextareaInput
    \/ SyncFires
    \/ HandleCloseDrawer
    \/ TimerFires

SpecEditor == InitEditor /\ [][NextEditor]_vars

----------------------------------------------------------------------------
(* The documents route of the server: verifyToken, then updateDocument or  *)
(* deleteDocument.  server is                                              *)
(*   users  the firebaseId of the rows of the User table (id = firebaseId) *)
(*   docs   the Document table: id -> [userId, markdownContent] or NoDoc   *)
(*   reqs   the requests: [pc, method, header, id, uid, status, wrote]     *)
(* A handler is split at its awaits, so two requests interleave.  The      *)
(* database is taken to answer; its only failure is the update or delete   *)
(* of a record that is gone.                                               *)

Requests == {"r1", "r2"}
Uids == {"A", "B", "C"}
DocIds == {"d1", "d2"}
\* findUnique returns null: no record with this id
NoDoc == [userId |-> "", markdownContent |-> ""]

\* the authorization header: absent, "Bearer " with nothing after it, a
\* token that verifyIdToken rejects, or the valid token of a uid
Headers == {"absent", "Bearer ", "Bearer bad"} \cup {"Bearer " \o u : u \in Uids}

\* authHeader?.startsWith('Bearer ') ? authHeader.split(' ')[1] : authHeader
TokenOf(header) ==
    CASE header = "absent" -> ""
      [] header = "Bearer " -> ""
      [] header = "Bearer bad" -> "bad"
      [] OTHER -> CHOOSE u \in Uids : header = "Bearer " \o u

IdleRequest ==
    [pc |-> "idle", method |-> "", header |-> "absent", id |-> "d1",
     uid |-> "", status |-> 0, wrote |-> FALSE]

InitialDocs ==
    [d \in DocIds |-> IF d = "d1"
                      THEN [userId |-> "A", markdownContent |-> "old"]
                      ELSE NoDoc]

InitServer ==
    /\ pc = "idle"
    /\ y = MARGIN
    /\ numPages = 0
    /\ listDepth = 0
    /\ listCounters = <<>>
    /\ emitted = <<>>
    /\ exportPc = "idle"
    /\ markdown = <<>>
    /\ processed = <<>>
    /\ html = <<>>
    /\ error = "none"
    /\ started = <<>>
    /\ logged = 0
    /\ savedPages = 0
    /\ mainPage = <<>>
    /\ hook = <<>>
    /\ editor = <<>>
    /\ server = [users |-> {"A", "B"}, docs |-> InitialDocs,
                 reqs |-> [r \in Requests |-> IdleRequest]]

\* res.status(code): the request is answered
Respond(r, code) ==
    server' = [server EXCEPT !.reqs[r].pc = "done", !.reqs[r].status = code]

\* PUT or DELETE /api/documents/:id arrives
Receive(r) ==
    /\ server.reqs[r].pc = "idle"
    /\ \E m \in {"PUT", "DELETE"}, h \in Headers, d \in DocIds :
          server' = [server EXCEPT !.reqs[r].pc = "verifyToken",
                                   !.reqs[r].method = m,
                                   !.reqs[r].header = h,
                                   !.reqs[r].id = d]
    /\ UNCHANGED <<mainPage, hook, editor>>
    /\ UNCHANGED pdfVars

\* verifyToken
VerifyToken(r) ==
    /\ server.reqs[r].pc = "verifyToken"
    /\ LET token == TokenOf(server.reqs[r].header)
       IN IF token = "" THEN Respond(r, 401)
          ELSE IF token \notin Uids THEN Respond(r, 403)
          ELSE server' = [server EXCEPT !.reqs[r].pc = "findUser",
                                        !.reqs[r].uid = token]
    /\ UNCHANGED <<mainPage, hook, editor>>
    /\ UNCHANGED pdfVars

\* prisma.user.findUnique({ where: { firebaseId: uid } })
FindUser(r) ==
    /\ server.reqs[r].pc = "findUser"
    /\ IF server.reqs[r].uid \notin server.users THEN Respond(r, 403)
       ELSE server' = [server EXCEPT !.reqs[r].pc = "findDoc"]
    /\ UNCHANGED <<mainPage, hook, editor>>
    /\ UNCHANGED pdfVars

\* mutant: the document is found but its owner is not compared
FindDocAnyOwner(r) ==
    /\ server.reqs[r].pc = "findDoc"
    /\ LET doc == server.docs[server.reqs[r].id]
       IN IF doc = NoDoc THEN Respond(r, 404)
          ELSE server' = [server EXCEPT !.reqs[r].pc = "write"]
    /\ UNCHANGED <<mainPage, hook, editor>>
    /\ UNCHANGED pdfVars

\* prisma.document.findUnique({ where: { id } }) and the owner test
FindDoc(r) ==
    /\ server.reqs[r].pc = "findDoc"
    /\ LET doc == server.docs[server.reqs[r].id]
       IN IF doc = NoDoc THEN Respond(r, 404)
          ELSE IF doc.userId # server.reqs[r].uid THEN Respond(r, 403)
          ELSE server' = [server EXCEPT !.reqs[r].pc = "write"]
    /\ UNCHANGED <<mainPage, hook, editor>>
    /\ UNCHANGED pdfVars

\* prisma.document.update / prisma.document.delete; both throw when the
\* record is gone, and the catch block answers 500
Write(r) ==
    /\ server.reqs[r].pc = "write"
    /\ LET id == server.reqs[r].id
       IN IF server.docs[id] = NoDoc THEN Respond(r, 500)
          ELSE server' =
                 [server EXCEPT
                     !.docs[id] = IF server.reqs[r].method = "PUT"
                                  THEN [@ EXCEPT !.markdownContent = "new"]
                                  ELSE NoDoc,
                     !.reqs[r].pc = "done", !.reqs[r].status = 200,
                     !.reqs[r].wrote = TRUE]
    /\ UNCHANGED <<mainPage, hook, editor>>
    /\ UNCHANGED pdfVars

NextServer ==
    \E r \in Requests :
        \/ Receive(r)
        \/ VerifyToken(r)
        \/ FindUser(r)
        \/ FindDoc(r)
        \/ Write(r)

SpecServer == InitServer /\ [][NextServer]_vars

----------------------------------------------------------------------------
(* Properties of the layout *)

Limit == PageHeight - MARGIN
Drawn == {i \in DOMAIN emitted : emitted[i].what # "li"}
Checked == {i \in Drawn : emitted[i].need > 0}
OfKind(K) == {i \in DOMAIN emitted : emitted[i].what \in K}
RowKinds == {"rowfill", "cell", "rowborder", "colsep"}
LineKinds == {"prefix", "text", "code", "hr"} \cup RowKinds

\* C1: every drawing operation (text run, line, rectangle) is emitted with
\* all of its vertical coordinates inside [MARGIN, pageHeight - MARGIN] of
\* the page that is current when it is emitted.
C1_CoordinatesInsideMargins ==
    \A i \in Drawn :
        /\ MARGIN <= emitted[i].y1 /\ emitted[i].y1 <= Limit
        /\ MARGIN <= emitted[i].y2 /\ emitted[i].y2 <= Limit

\* C2: before each wrapped text line, code line, table row and horizontal
\* rule the engine tests cursor + neededHeight > pageHeight - MARGIN and,
\* when true, appends a page and sets the cursor to MARGIN first; so at the
\* emission cursor + neededHeight <= pageHeight - MARGIN for every item that
\* fits on an empty page.
C2_BreakBeforeEmission ==
    \A i \in OfKind(LineKinds) :
        LET o == emitted[i] IN
        /\ o.need > 0
        /\ IF o.prey + o.need > Limit
           THEN o.page = o.prepage + 1 /\ o.cury = MARGIN
           ELSE o.page = o.prepage /\ o.cury = o.prey
        /\ (MARGIN + o.need <= Limit) => (o.cury + o.need <= Limit)

C2_Witness ==
    \E i \in OfKind({"rowborder"}) :
        /\ emitted[i].page = emitted[i].prepage + 1
        /\ emitted[i].cury = MARGIN
        /\ emitted[i].n = 2

\* C3: in a pre block a code line that does not fit in the rest of the
\* current page causes a page to be appended before it is drawn; every code
\* line is drawn whole on exactly one page, and the lines are drawn in
\* source order.
C3_CodeLinesWhole ==
    /\ \A i \in OfKind({"code"}) :
        LET o == emitted[i] IN
        /\ (o.prey + o.need > Limit) => (o.page = o.prepage + 1)
        /\ (o.prey + o.need <= Limit) => (o.page = o.prepage)
        /\ MARGIN <= o.y1 /\ o.y1 + o.need <= Limit
    /\ \A g \in OfKind({"codebg"}) :
        LET lines == {i \in OfKind({"code"}) : emitted[i].blk = emitted[g].blk}
        IN /\ Cardinality(lines) = emitted[g].n
           /\ \A i \in lines : i = g + emitted[i].n
           /\ \A i, j \in lines :
                 i < j =>
                    \/ emitted[i].page < emitted[j].page
                    \/ /\ emitted[i].page = emitted[j].page
                       /\ emitted[i].y1 + emitted[i].need <= emitted[j].y1

C3_Witness ==
    \E i \in OfKind({"code"}) :
        /\ emitted[i].n > 1
        /\ emitted[i].page = emitted[i].prepage + 1
        /\ emitted[i].y1 = MARGIN

\* C4: no fixed-height block straddles a page break: a table row, a
\* horizontal rule, a code block's background rectangle and a blockquote's
\* vertical rule are each drawn entirely on the page that holds the content
\* they frame.
C4_NoFrameStraddles ==
    \A f \in OfKind({"codebg", "quoterule", "rowborder", "rowfill", "hr"}) :
        /\ MARGIN <= emitted[f].y1 + 50
        /\ emitted[f].y1 <= emitted[f].y2
        /\ emitted[f].y2 <= Limit
        /\ \A i \in OfKind({"code", "text"}) :
              emitted[i].blk = emitted[f].blk =>
                 /\ emitted[i].page = emitted[f].page
                 /\ emitted[f].y1 <= emitted[i].y1
                 /\ emitted[i].y1 <= emitted[f].y2

QuoteLines(q) == {t \in OfKind({"text"}) : emitted[t].blk = emitted[q].blk}

\* C20: for every non-empty blockquote the vertical rule is drawn on the
\* page where the quote's text lines were drawn and covers their vertical
\* extent: its start is not below its end, its start is within one line
\* height above the first line's baseline and its end within one line height
\* below the last line's baseline, also when the text wraps onto a new page
\* or the quote starts at the top of a page.
C20_RuleCoversQuote ==
    \A q \in OfKind({"quoterule"}) :
        LET lineHeight == GetLineHeight(FONT_SIZE_BODY) IN
        /\ QuoteLines(q) # {}
        /\ emitted[q].y1 <= emitted[q].y2
        /\ \A t \in QuoteLines(q) :
              /\ emitted[t].page = emitted[q].page
              /\ emitted[q].y1 <= emitted[t].y1
              /\ emitted[t].y1 <= emitted[q].y2
        /\ \E t \in QuoteLines(q) : emitted[t].y1 - lineHeight <= emitted[q].y1
        /\ \E t \in QuoteLines(q) : emitted[q].y2 <= emitted[t].y1 + lineHeight

\* the operations of kind K drawn for the row of operation i
InRow(i, K) ==
    {j \in OfKind(K) : emitted[j].blk = emitted[i].blk /\ emitted[j].d = emitted[i].d}

\* C11: for a table whose first row has n cells the content width is
\* divided into n equal columns of width contentWidth / n: in every row the
\* text of cell i starts at MARGIN + i * colWidth + 5 and the n - 1 column
\* separators are drawn at MARGIN + i * colWidth (a first row without
\* cells gives one column).  Positions are fractions x / den, compared by
\* cross-multiplication.
C11_EqualColumns ==
    \A r \in OfKind({"rowborder"}) :
        LET n == emitted[r].k IN
        IF n >= 1
        THEN /\ Cardinality(InRow(r, {"cell"})) = emitted[r].own
             /\ \A c \in InRow(r, {"cell"}) :
                   /\ emitted[c].n \in 0..(emitted[r].own - 1)
                   /\ emitted[c].x * n =
                         emitted[c].den
                           * (MARGIN * n + emitted[c].n * contentWidth + 50 * n)
             /\ Cardinality(InRow(r, {"colsep"})) = n - 1
             /\ \A i \in 1..(n - 1) :
                   \E c \in InRow(r, {"colsep"}) :
                       /\ emitted[c].n = i
                       /\ emitted[c].x * n =
                             emitted[c].den * (MARGIN * n + i * contentWidth)
             /\ emitted[r].x = emitted[r].den * MARGIN
        ELSE /\ InRow(r, {"colsep"}) = {}
             /\ \A c \in InRow(r, {"cell"}) :
                   emitted[c].x =
                      emitted[c].den
                        * (MARGIN + emitted[c].n * contentWidth + 50)

\* a table of 3 columns whose second row has fewer cells: the separators
\* of the second row are at one third and two thirds of the content width
C11_Witness ==
    \E r \in OfKind({"rowborder"}) :
        /\ emitted[r].k = 3 /\ emitted[r].d = 2 /\ emitted[r].own = 2
        /\ \E c \in InRow(r, {"colsep"}) :
              emitted[c].n = 2
              /\ 3 * emitted[c].x = emitted[c].den * (3 * MARGIN + 2 * contentWidth)
        /\ \E c \in InRow(r, {"cell"}) : emitted[c].n = 1

----------------------------------------------------------------------------
(* Properties of downloadMarkdownAsPdf *)

\* the trimmed value of the argument is empty: it holds whitespace only
Blank == \A i \in DOMAIN markdown : markdown[i] \in Whitespace

\* C6: for every markdown string whose trimmed value is empty,
\* downloadMarkdownAsPdf rejects with EmptyMarkdownError, before the
\* compile, sanitize, layout or save step is started.
C6_EmptyRejectedFirst ==
    (exportPc # "start" /\ Blank) =>
        /\ exportPc = "rejected"
        /\ error = "EmptyMarkdownError"
        /\ started = <<>>
        /\ numPages = 0 /\ savedPages = 0 /\ emitted = <<>>

C6_Witness ==
    /\ exportPc = "rejected"
    /\ error = "EmptyMarkdownError"
    /\ markdown = <<" ", LF>>

ThrownBy(step) ==
    CASE step = "compile" -> "compileError"
      [] step = "sanitize" -> "sanitizeError"
      [] step = "layout" -> "layoutError"
      [] OTHER -> "saveError"

\* C16: when the compile, sanitize or layout step throws, the same error
\* value is logged once and rethrown to the caller; no step is retried:
\* each step runs at most once per call.
C16_FailureLoggedAndRethrown ==
    /\ (exportPc = "rejected" /\ started # <<>>) =>
          /\ logged = 1
          /\ error = ThrownBy(started[Len(started)])
    /\ (exportPc # "rejected") => (logged = 0 /\ error = "none")
    /\ \A i, j \in DOMAIN started : i < j => started[i] # started[j]

C16_Witness ==
    /\ exportPc = "rejected"
    /\ error = "sanitizeError"
    /\ logged = 1
    /\ started = <<"compile", "sanitize">>

Steps == <<"compile", "sanitize", "layout", "save">>

\* C17: within one call the steps run strictly in the order compile,
\* sanitize, layout, save with no overlap; save is invoked exactly once and
\* only after the three earlier steps completed without throwing; when one
\* of them fails save is never invoked, so no partially rendered document
\* reaches the caller.
C17_StepsInOrder ==
    /\ Len(started) <= Len(Steps)
    /\ started = SubSeq(Steps, 1, Len(started))
    /\ exportPc \in {"compile", "sanitize", "layout", "save"} =>
          (started # <<>> /\ started[Len(started)] = exportPc /\ error = "none")
    /\ (\E i \in DOMAIN started : started[i] = "save") =>
          (pc = "done" /\ error \in {"none", "saveError"})
    /\ error \in {"compileError", "sanitizeError", "layoutError"} =>
          (savedPages = 0 /\ \A i \in DOMAIN started : started[i] # "save")
    /\ savedPages > 0 => (exportPc = "resolved" /\ savedPages = numPages)
    /\ exportPc = "resolved" => (started = Steps /\ savedPages >= 1)

C17_Witness ==
    /\ exportPc = "resolved"
    /\ started = Steps
    /\ Len(html) = MaxHtmlBlocks
    /\ savedPages = numPages

----------------------------------------------------------------------------
(* Properties of the list items *)

Items == OfKind({"li"})
NoCheckbox(i) == ~emitted[i].hasChecked /\ ~emitted[i].hasUnchecked

\* the li noted at i is followed by the prefix drawn for it
HasPrefix(i) ==
    /\ i + 1 \in DOMAIN emitted
    /\ emitted[i + 1].what = "prefix"
    /\ emitted[i + 1].blk = emitted[i].blk

\* the li noted at i draws nothing
DrawsNothing(i) ==
    \A j \in Drawn : emitted[j].blk # emitted[i].blk

\* C8 as claimed: in every ordered list the k-th li child that has no
\* checkbox is rendered with prefix "k.".
C8_KthItemNumberedK ==
    \A i \in Items :
        (emitted[i].parent = "ol" /\ NoCheckbox(i)) =>
            /\ HasPrefix(i)
            /\ emitted[i + 1].label = "number"
            /\ emitted[i + 1].n = emitted[i].k

\* C8 as amended: in every ordered list whose element children are all li,
\* the k-th li child that has no checkbox and has non-empty direct text is
\* rendered with prefix "k." (an li child with empty direct text draws
\* nothing but is counted); the counter starts from 0 on each list entry and
\* nested lists do not change the numbering of the outer list.
C8_KthRenderedItemNumberedK ==
    \A i \in Items :
        (emitted[i].parent = "ol" /\ NoCheckbox(i) /\ emitted[i].onlyItems) =>
            IF emitted[i].own > 0
            THEN /\ HasPrefix(i)
                 /\ emitted[i + 1].label = "number"
                 /\ emitted[i + 1].n = emitted[i].k
            ELSE DrawsNothing(i)

C8_Witness ==
    \E i \in Items :
        /\ emitted[i].parent = "ol" /\ emitted[i].k = 2 /\ emitted[i].d = 1
        /\ HasPrefix(i) /\ emitted[i + 1].n = 2
        /\ \E j \in Items :
              j < i /\ emitted[j].d = 2 /\ emitted[j].parent = "ol"

\* C9 as claimed: every item of an unordered list without a checkbox is
\* rendered with the bullet prefix, one prefixed block per item in document
\* order, with left indent (d - 1) * 20 points at nesting depth d >= 1.
C9_EveryItemBulleted ==
    \A i \in Items :
        (emitted[i].parent = "ul" /\ NoCheckbox(i)) =>
            /\ HasPrefix(i)
            /\ emitted[i + 1].label = "bullet"
            /\ emitted[i + 1].x = MARGIN + (emitted[i].d - 1) * 200

\* C9 as amended: every item of an unordered list without a checkbox and
\* with non-empty direct text is rendered with the bullet prefix, one
\* prefixed block per such item in document order, with left indent
\* (d - 1) * 20 points at nesting depth d >= 1; an item with empty direct
\* text draws nothing.
C9_EveryRenderedItemBulleted ==
    \A i \in Items :
        (emitted[i].parent = "ul" /\ NoCheckbox(i)) =>
            IF emitted[i].own > 0
            THEN /\ HasPrefix(i)
                 /\ emitted[i + 1].label = "bullet"
                 /\ emitted[i].d >= 1
                 /\ emitted[i + 1].x = MARGIN + (emitted[i].d - 1) * 200
                 /\ Cardinality({j \in OfKind({"prefix"}) :
                                    emitted[j].blk = emitted[i].blk}) = 1
                 /\ emitted[i + 2].what = "text"
                 /\ emitted[i + 2].blk = emitted[i].blk
                 /\ emitted[i + 2].x = emitted[i + 1].x + 150
            ELSE DrawsNothing(i)

C9_Witness ==
    \E i \in Items :
        /\ emitted[i].parent = "ul" /\ emitted[i].d = 2
        /\ HasPrefix(i)
        /\ emitted[i + 1].label = "bullet"
        /\ emitted[i + 1].x = MARGIN + 200

\* C10 as claimed, for the items that are drawn: the checked-box prefix when
\* a checkbox descendant with the checked attribute exists, the empty-box
\* prefix when a checkbox descendant without it exists, the number or bullet
\* only when no checkbox descendant exists.
C10_AnyCheckboxDecides ==
    \A i \in Items :
        emitted[i].own > 0 =>
            /\ HasPrefix(i)
            /\ emitted[i].hasChecked => emitted[i + 1].label = "checked"
            /\ (emitted[i].hasUnchecked /\ ~emitted[i].hasChecked) =>
                  emitted[i + 1].label = "unchecked"
            /\ emitted[i + 1].label \in {"number", "bullet"} => NoCheckbox(i)

\* C10 as amended: a list item with non-empty direct text is rendered with
\* the prefix its FIRST checkbox input descendant in document order decides
\* (checked box if it has the checked attribute, empty box if not), and with
\* the number or bullet prefix only when no checkbox descendant exists; the
\* checkbox prefix takes precedence in ordered and unordered lists alike.
C10_FirstCheckboxDecides ==
    \A i \in Items :
        IF emitted[i].own > 0
        THEN /\ HasPrefix(i)
             /\ emitted[i + 1].label =
                   CASE emitted[i].first = "checked" -> "checked"
                     [] emitted[i].first = "unchecked" -> "unchecked"
                     [] OTHER -> IF emitted[i].parent = "ol" THEN "number"
                                 ELSE "bullet"
             /\ (emitted[i].first = "none") = NoCheckbox(i)
        ELSE DrawsNothing(i)

C10_Witness ==
    \E i \in Items :
        /\ emitted[i].parent = "ol"
        /\ emitted[i].first = "unchecked" /\ emitted[i].hasChecked
        /\ HasPrefix(i)
        /\ emitted[i + 1].label = "unchecked"

\* C28: the prefix of a list item depends only on that item's own content
\* and position: a checkbox that belongs to an item of a nested list does not
\* change the prefix of the enclosing parent item, which keeps its number or
\* bullet.
C28_NestedCheckboxLeavesParent ==
    \A i \in Items :
        (emitted[i].own > 0 /\ emitted[i].cb = "none") =>
            /\ HasPrefix(i)
            /\ emitted[i + 1].label =
                  IF emitted[i].parent = "ol" THEN "number" ELSE "bullet"

\* C29: whenever renderText draws a prefix, the prefix and the first wrapped
\* line of the item's text are drawn on the same page at the same vertical
\* coordinate, the text 15 points to the right of the prefix; no page break
\* falls between a prefix and its first line.
C29_PrefixWithFirstLine ==
    \A i \in OfKind({"prefix"}) :
        /\ i + 1 \in DOMAIN emitted
        /\ emitted[i + 1].what = "text"
        /\ emitted[i + 1].n = 1
        /\ emitted[i + 1].blk = emitted[i].blk
        /\ emitted[i + 1].page = emitted[i].page
        /\ emitted[i + 1].y1 = emitted[i].y1
        /\ emitted[i + 1].x = emitted[i].x + 150
        /\ emitted[i + 1].prepage = emitted[i].page
        /\ emitted[i + 1].prey = emitted[i].y1

\* a prefix that the page test moved to the top of a new page
C29_Witness ==
    \E i \in OfKind({"prefix"}) :
        /\ emitted[i].prepage < emitted[i].page
        /\ emitted[i].y1 = MARGIN
        /\ emitted[i + 1].what = "text"
        /\ emitted[i + 1].page = emitted[i].page

\* C22: at every point of the tree walk the list nesting depth is >= 0 and
\* equals the number of entries of the counter stack; every li is processed
\* with depth >= 1 and a non-empty counter stack; when the walk ends the
\* depth is 0 and the stack is empty.
C22_DepthMatchesStack ==
    /\ listDepth >= 0 /\ listDepth = Len(listCounters)
    /\ \A i \in DOMAIN emitted :
          emitted[i].depth >= 0 /\ emitted[i].depth = emitted[i].stack
    /\ \A i \in Items : emitted[i].depth >= 1 /\ emitted[i].stack >= 1
    /\ pc = "done" => (listDepth = 0 /\ listCounters = <<>>)

----------------------------------------------------------------------------
(* Properties of malformed trees *)

RECURSIVE LinesIn(_)
\* the text lines of a tree, read off the tree
LinesIn(n) ==
    LET RECURSIVE Of(_, _)
        Of(kids, i) == IF i > Len(kids) THEN 0
                       ELSE LinesIn(kids[i]) + Of(kids, i + 1)
    IN (IF n.tag \in {"table", "hr"} THEN 0 ELSE n.lines) + Of(n.kids, 1)

RECURSIVE CellsIn(_)
\* the table cells of a tree, read off the tree
CellsIn(n) ==
    LET RECURSIVE Of(_, _)
        Of(kids, i) == IF i > Len(kids) THEN 0
                       ELSE CellsIn(kids[i]) + Of(kids, i + 1)
        RECURSIVE InRows(_, _)
        InRows(rows, i) == IF i > Len(rows) THEN 0
                           ELSE rows[i].cells + InRows(rows, i + 1)
    IN InRows(n.rows, 1) + Of(n.kids, 1)

RECURSIVE SumOver(_, _, _)
SumOver(F(_), doc, i) ==
    IF i > Len(doc) THEN 0 ELSE F(doc[i]) + SumOver(F, doc, i + 1)

\* renderToPdf has returned
Returned == exportPc \in {"save", "resolved"}

\* what renderToPdf has drawn when it has returned
C19_Rendered ==
    /\ pc = "done" /\ error = "none" /\ logged = 0
    /\ Cardinality(OfKind({"text", "code"})) = SumOver(LinesIn, html, 1)
    /\ Cardinality(OfKind({"cell"})) = SumOver(CellsIn, html, 1)
    /\ \A i \in Items :
          (emitted[i].d = 0 /\ emitted[i].own > 0) =>
              /\ HasPrefix(i)
              /\ emitted[i + 1].label \in {"bullet", "checked", "unchecked"}
              /\ emitted[i + 1].x = MARGIN - indentPerLevel
    /\ \A i \in OfKind({"prefix"}) :
          emitted[i].label = "number" => emitted[i].n >= 1
    /\ \A i \in Drawn : emitted[i].page \in 1..numPages
    /\ html = <<>> => (emitted = <<>> /\ numPages = 1 /\ y = MARGIN)
    /\ html = <<RowlessTable>> => (emitted = <<>> /\ numPages = 1)

----------------------------------------------------------------------------
(* Properties of the download button *)

\* an export has started and its handler has not run to its end
InFlight == exportPc \notin {"idle", "settled"}

\* C24: isGeneratingPdf is true from the start of an export until it settles
\* and false again after every export, succeeded or failed; an
\* EmptyMarkdownError sets the displayed error to that error's own message,
\* any other failure sets the generic message, and a new export first clears
\* the previous error.
C24_FlagAndError ==
    /\ [](mainPage.isGeneratingPdf <=> InFlight)
    /\ [][(exportPc' = "settled" /\ exportPc # "settled") =>
            /\ ~mainPage'.isGeneratingPdf
            /\ mainPage'.error =
                  IF exportPc = "resolved" THEN mainPage.error
                  ELSE IF error = "EmptyMarkdownError" THEN EmptyMessage
                  ELSE GenericMessage]_vars
    /\ [][(mainPage'.exports # mainPage.exports) =>
            (mainPage'.error = "null" /\ mainPage'.isGeneratingPdf)]_vars

\* a second export that failed in the pipeline after a first one was refused
C24_Witness ==
    /\ exportPc = "settled"
    /\ mainPage.exports = 2
    /\ ~mainPage.isGeneratingPdf
    /\ mainPage.error = GenericMessage
    /\ error = "layoutError"
    /\ mainPage.editorMarkdown = <<"a">>

----------------------------------------------------------------------------
(* Properties of the persistence hook *)

\* C25: after any sequence of updateMarkdown calls at most one save timer is
\* pending; each call cancels the previous pending timer, so a value replaced
\* by a later call before its timer fired is never written to localStorage,
\* and a timer that fires writes the value of the most recent call.
C25_OnePendingSave ==
    /\ [](Cardinality(hook.timers) <= 1)
    /\ [](\A t \in hook.timers :
              t.id = hook.saveTimerRef /\ t.id = hook.calls /\ t.value = hook.last)
    /\ [][hook'.nwrites # hook.nwrites =>
            /\ hook'.wrote = hook.last
            /\ hook'.fired = hook.calls
            /\ hook'.storage \in {hook.last, hook.storage}
            /\ ~hook.storageFull => hook'.storage = hook.last]_vars

\* three calls, the timers of the first two never fired, the third wrote
C25_Witness ==
    /\ hook.calls = 3
    /\ hook.nwrites = 1
    /\ hook.fired = 3
    /\ hook.timers = {}
    /\ hook.storage = hook.last
    /\ hook.mounted

\* C30: the last value passed to updateMarkdown is eventually written to
\* localStorage when no later update follows, in every sequence of updates,
\* timer expiries and editor unmount/remount events (storage that accepts
\* writes is assumed).
C30_LastValueSaved ==
    ~hook.storageFull => <>[](hook.last = "none" \/ hook.storage = hook.last)

----------------------------------------------------------------------------
(* Properties of the markdown-source drawer *)

\* C26: while the markdown-source drawer is open, a markdownUpdated event of
\* the rich editor never changes the persisted markdown state: from the
\* moment the drawer is opened until it is closed the state changes only
\* through textarea input, for every interleaving of open, editor update,
\* textarea input, debounced sync and close events.
C26_DrawerOwnsMarkdown ==
    /\ [](editor.drawerOpen => (editor.drawerOpenRef
                                   /\ editor.textarea = hook.markdown))
    /\ [][(editor.drawerOpen /\ editor'.lastEvent = "markdownUpdated"
             /\ editor' # editor) =>
            (hook'.markdown = hook.markdown /\ hook'.calls = hook.calls)]_vars
    /\ [][(editor.drawerOpen /\ hook'.markdown # hook.markdown) =>
            (editor'.lastEvent = "textareaInput" /\ editor'.drawerOpen)]_vars

\* a markdownUpdated event was delivered while the drawer is open, after a
\* textarea input, with a document that differs from the state
C26_Witness ==
    /\ editor.drawerOpen
    /\ editor.lastEvent = "markdownUpdated"
    /\ editor.content # hook.markdown
    /\ hook.markdown = editor.textarea
    /\ hook.calls >= 1
    /\ hook.markdown # DEFAULT_MARKDOWN

----------------------------------------------------------------------------
(* Properties of the documents route *)

\* the request carries a token that verifyIdToken accepts
Verified(q) == TokenOf(q.header) \in Uids

\* the request is one of the cases that must be refused: no token, an
\* invalid token, an unknown user, another user's document
Refused(q) ==
    \/ ~Verified(q)
    \/ TokenOf(q.header) \notin server.users
    \/ /\ InitialDocs[q.id] # NoDoc
       /\ InitialDocs[q.id].userId # TokenOf(q.header)

----------------------------------------------------------------------------
(* Properties of elements without handler *)

RECURSIVE ParagraphLines(_)
\* the lines of the p elements of a tree; direct text nodes do not count
ParagraphLines(n) ==
    LET RECURSIVE Of(_, _)
        Of(kids, i) == IF i > Len(kids) THEN 0
                       ELSE ParagraphLines(kids[i]) + Of(kids, i + 1)
    IN (IF n.tag = "p" THEN n.lines ELSE 0) + Of(n.kids, 1)

RECURSIVE ParagraphCount(_)
\* the number of non-empty p elements of a tree
ParagraphCount(n) ==
    LET RECURSIVE Of(_, _)
        Of(kids, i) == IF i > Len(kids) THEN 0
                       ELSE ParagraphCount(kids[i]) + Of(kids, i + 1)
    IN (IF n.tag = "p" /\ n.lines > 0 THEN 1 ELSE 0) + Of(n.kids, 1)

RECURSIVE DirectText(_)
\* the lines of the direct text nodes of a tree
DirectText(n) ==
    LET RECURSIVE Of(_, _)
        Of(kids, i) == IF i > Len(kids) THEN 0
                       ELSE DirectText(kids[i]) + Of(kids, i + 1)
    IN (IF n.tag = "#text" THEN n.lines ELSE 0) + Of(n.kids, 1)

\* C23: for an element whose tag has no handler the engine only recurses
\* into its element children: text nodes that are direct children of such an
\* element or of the root produce no drawing operation and do not move the
\* cursor.  What is drawn, and where the cursor ends, is what the p
\* elements of the tree alone give.
C23_DirectTextNotDrawn ==
    Returned =>
        /\ Cardinality(OfKind({"text"})) = SumOver(ParagraphLines, html, 1)
        /\ Drawn = OfKind({"text"})
        /\ numPages = 1 =>
              y = MARGIN
                  + SumOver(ParagraphLines, html, 1) * GetLineHeight(FONT_SIZE_BODY)
                  + SumOver(ParagraphCount, html, 1) * 80
        /\ SumOver(ParagraphLines, html, 1) = 0 =>
              (emitted = <<>> /\ y = MARGIN /\ numPages = 1)

\* text directly in a div and directly in the root, around one paragraph
C23_Witness ==
    /\ Returned
    /\ Len(html) = 2
    /\ html[1].tag = "div" /\ DirectText(html[1]) = 1 + MaxLines
    /\ html[2].tag = "#text"
    /\ Cardinality(OfKind({"text"})) = 1
    /\ y = MARGIN + GetLineHeight(FONT_SIZE_BODY) + 80

----------------------------------------------------------------------------
(* Properties of headings *)

\* space before, font size and space after of a heading, in tenths of a point
Metrics(tag) ==
    CASE tag = "h1" -> <<200, 240, 100>>
      [] tag = "h2" -> <<160, 180, 80>>
      [] tag = "h3" -> <<120, 140, 60>>
      [] OTHER -> <<100, 120, 40>>

\* before + lines * 1.4 * size + after
Advance(n) ==
    Metrics(n.tag)[1] + n.lines * ((Metrics(n.tag)[2] * 14) \div 10)
    + Metrics(n.tag)[3]

\* the heading whose line is operation i: blk numbers the root children
HeadingOf(i) == html[emitted[i].blk]

\* C21: a heading advances the cursor by its space before, then by one line
\* height (1.4 times the font size) per wrapped line, then by its space
\* after, with (before, size, after) = (20, 24, 10) for h1, (16, 18, 8) for
\* h2, (12, 14, 6) for h3 and (10, 12, 4) for h4 to h6; without a page break
\* the total advance is exactly before + lines * 1.4 * size + after.
C21_HeadingAdvance ==
    Returned =>
        /\ numPages = 1 => y = MARGIN + SumOver(Advance, html, 1)
        /\ Cardinality(OfKind({"text"})) = SumOver(LinesIn, html, 1)
        /\ \A i \in OfKind({"text"}) :
              LET lh == (Metrics(HeadingOf(i).tag)[2] * 14) \div 10 IN
              /\ emitted[i].need = lh
              /\ emitted[i].n > 1 =>
                    /\ emitted[i - 1].blk = emitted[i].blk
                    /\ emitted[i].page = emitted[i - 1].page =>
                           emitted[i].y1 = emitted[i - 1].y1 + lh
              /\ emitted[i].n = 1 =>
                    \/ emitted[i].page = emitted[i].prepage + 1
                    \/ emitted[i].y1 =
                          MARGIN + Metrics(HeadingOf(i).tag)[1]
                          + SumOver(Advance, SubSeq(html, 1, emitted[i].blk - 1), 1)
                    \/ emitted[i].page > 1
        /\ (Len(html) > 0 /\ html[Len(html)].lines > 0) =>
              \E i \in OfKind({"text"}) :
                  /\ emitted[i].blk = Len(html) /\ emitted[i].n = html[Len(html)].lines
                  /\ y = emitted[i].y1 + emitted[i].need + Metrics(html[Len(html)].tag)[3]

\* an h2 of two lines then an h5 of one line, without a page break
C21_Witness ==
    /\ Returned
    /\ html = <<Leaf("h2", 2), Leaf("h5", 1)>>
    /\ numPages = 1
    /\ y = MARGIN + (160 + 2 * 252 + 80) + (100 + 168 + 40)

----------------------------------------------------------------------------
(* Properties of two calls *)

\* renderToPdf of call c has been entered and has not thrown
InLayout(c) == exportPc[c] \in {"layout", "save", "resolved"}

\* what ops draws: the operations without the bookkeeping of the walk
Drawing(ops) ==
    LET drawn == SelectSeq(ops, LAMBDA o : o.what # "li")
    IN [i \in DOMAIN drawn |->
           [what |-> drawn[i].what, page |-> drawn[i].page, x |-> drawn[i].x,
            den |-> drawn[i].den, y1 |-> drawn[i].y1, y2 |-> drawn[i].y2,
            label |-> drawn[i].label, n |-> drawn[i].n]]

\* the number of text lines drawn on page p
LinesOn(ops, p) ==
    Cardinality({i \in DOMAIN ops :
                    ops[i].what \in {"text", "code"} /\ ops[i].page = p})

C18_CallsIsolated ==
    \A c \in Calls :
        (InLayout(c) /\ pc[c] = Len(html[c])) =>
            LET alone == RenderToPdf(1, html[c])
            IN /\ numPages[c] = alone.page
               /\ Drawing(emitted[c]) = Drawing(alone.ops)
               /\ y[c] = alone.y
               /\ listDepth[c] = alone.depth
               /\ listCounters[c] = alone.counters
               /\ exportPc[c] = "resolved" => savedPages[c] = alone.page

\* the first call is suspended at the await of markdownToHtml while the
\* second has laid out two pages and saved them
C18_Witness ==
    /\ exportPc["first"] = "compile"
    /\ exportPc["second"] = "resolved"
    /\ Len(html["second"]) = 2
    /\ numPages["second"] = 2
    /\ savedPages["second"] = 2

----------------------------------------------------------------------------
(* Properties of convertLatexToUnicode *)

\* convertLatexToUnicode has run on the argument
Converted == started # <<>>

\* the table entries whose macro is found at the start of t
Found(t) == {i \in DOMAIN LATEX_TO_UNICODE : MatchesAt(t, LATEX_TO_UNICODE[i].cmd)}

RECURSIVE OwnGlyphs(_)
\* every occurrence of a table macro replaced by that macro's own glyph:
\* where several table macros start, the longest is the one that occurs
OwnGlyphs(t) ==
    IF t = <<>> THEN <<>>
    ELSE IF Found(t) = {} THEN <<Head(t)>> \o OwnGlyphs(Tail(t))
    ELSE LET m == CHOOSE i \in Found(t) :
                      \A j \in Found(t) :
                          Len(LATEX_TO_UNICODE[j].cmd) <= Len(LATEX_TO_UNICODE[i].cmd)
         IN <<LATEX_TO_UNICODE[m].unicode>>
            \o OwnGlyphs(Drop(t, Len(LATEX_TO_UNICODE[m].cmd)))

\* what is left of a span's content after its macros got their own glyphs,
\* unrecognized macros and braces were removed, and the rest was trimmed
Remainder(latex) == Trim(StripBraces(StripMacros(OwnGlyphs(Trim(latex)))))

Dollars(t) == {i \in DOMAIN t : t[i] = "$"}

\* t holds exactly one $...$ span and no other delimiter
SingleSpan(t) ==
    /\ Cardinality(Dollars(t)) = 2
    /\ \E i \in Dollars(t) : i + 1 \notin Dollars(t) /\ i + 1 \in DOMAIN t
                              /\ \E j \in Dollars(t) : j > i + 1

SpanOpen(t) == CHOOSE i \in Dollars(t) : \A j \in Dollars(t) : i <= j
SpanClose(t) == CHOOSE i \in Dollars(t) : \A j \in Dollars(t) : j <= i
Before(t) == SubSeq(t, 1, SpanOpen(t) - 1)
Captured(t) == SubSeq(t, SpanOpen(t) + 1, SpanClose(t) - 1)
After(t) == SubSeq(t, SpanClose(t) + 1, Len(t))

\* t is one $$...$$ display-math span
DisplaySpan(t) ==
    /\ Len(t) >= 5
    /\ Dollars(t) = {1, 2, Len(t) - 1, Len(t)}

\* C13: inside every $...$ span each occurrence of a table macro is replaced
\* by exactly that macro's own glyph, whatever other macros the span holds
\* and whatever the order of the table: \infty and \in each get their own
\* glyph, and $\alpha \to \beta$ becomes alpha, arrow, beta separated by
\* blanks.  No table macro is listed before a longer one it is a prefix of.
C13_OwnGlyphPerMacro ==
    /\ (Converted /\ SingleSpan(markdown)) =>
          processed =
             Before(markdown)
             \o (IF Remainder(Captured(markdown)) = <<>>
                 THEN Captured(markdown) ELSE Remainder(Captured(markdown)))
             \o After(markdown)
    /\ (Converted /\ markdown = AlphaToBeta) =>
          processed = <<"U+03B1", " ", "U+2192", " ", "U+03B2">>
    /\ \A i, j \in DOMAIN LATEX_TO_UNICODE :
          (i < j /\ Len(LATEX_TO_UNICODE[i].cmd) < Len(LATEX_TO_UNICODE[j].cmd))
             => ~MatchesAt(LATEX_TO_UNICODE[j].cmd, LATEX_TO_UNICODE[i].cmd)

C13_Witness ==
    /\ Converted
    /\ markdown = <<"$", "\\", "i", "n", "f", "t", "y", "\\", "i", "n", "t", "$">>
    /\ processed = <<"U+221E", "U+2208", "t">>

\* C14: convertLatexToUnicode changes only single-dollar $...$ spans: text
\* outside any such span is returned unchanged, and a $$...$$ display-math
\* span is returned unchanged, content and delimiters.
C14_OnlyInlineSpansChange ==
    Converted =>
        /\ Dollars(markdown) = {} => processed = markdown
        /\ SingleSpan(markdown) =>
              /\ SubSeq(processed, 1, Len(Before(markdown))) = Before(markdown)
              /\ SubSeq(processed, Len(processed) - Len(After(markdown)) + 1,
                        Len(processed)) = After(markdown)
        /\ DisplaySpan(markdown) => processed = markdown

\* C15: for a $...$ span whose content becomes empty after macro
\* substitution, removal of unrecognized \word macros and braces, and
\* trimming, the originally captured text is returned unmodified instead of
\* an empty string.
C15_EmptiedSpanKeepsCaptured ==
    (Converted /\ SingleSpan(markdown) /\ Remainder(Captured(markdown)) = <<>>) =>
        /\ processed = Before(markdown) \o Captured(markdown) \o After(markdown)
        /\ Len(processed) = Len(markdown) - 2
        /\ Captured(markdown) # <<>>

C15_Witness ==
    /\ Converted
    /\ markdown = <<"$", " ", "\\", "q", "{", "$">>
    /\ processed = <<" ", "\\", "q", "{">>

====
